---- MODULE Spec2Model ----
(***************************************************************************)
(* CiA 402 / CiA 305 example programs of the XLA-INTG drive.               *)
(*                                                                         *)
(* Part 1 (Spec): the polling primitives of examples/common/utils.py       *)
(* (set_node_state, set_node_operation_mode, wait_for_statusword_flags)    *)
(* and the sequencers built on them (homing, send_position_command,        *)
(* position_mode_normal), main() of configuration.py from configure_node   *)
(* on, and error_handler.  A sequencer is a program, a sequence of         *)
(* instructions in source order; Step* actions execute one instruction,    *)
(* and an instruction that calls a primitive opens a callee frame which    *)
(* the primitive's own actions run to its return or raise.                 *)
(*                                                                         *)
(* Part 2 (SpecLss): the LSS functions of examples/common/utils.py.        *)
(*                                                                         *)
(* Part 3 (SpecMain): main() of the example scripts with the connection    *)
(* it opens, and the devices of the bus as LSS slaves for                  *)
(* change_node_id_all.py, and the receive thread that calls the TPDO       *)
(* callback of mode_pp_set_of_set_points.py.                               *)
(*                                                                         *)
(* Environment.  The device is unconstrained: every read of the            *)
(* statusword, of the reported power state and of a register returns any   *)
(* value of a small set.  Time is a monotonic clock in ticks that only     *)
(* time.sleep advances, by exactly the requested interval.  Confirmed      *)
(* services (SDO, LSS requests that wait for a reply) may raise;           *)
(* unconfirmed frames (PDO transmit, LSS switch-state-global, NMT command) *)
(* are handed to the transport, which is outside this model, and do not    *)
(* raise.  SIGINT (KeyboardInterrupt, not an Exception subclass) is        *)
(* delivered while the program is blocked: in time.sleep or in a confirmed *)
(* service.                                                                *)
(***************************************************************************)
EXTENDS Integers, Sequences, FiniteSets, TLC

VARIABLES
    call,     \* name of the running top-level function, "idle" before
    prog,     \* its instructions, fixed when the call starts
    pc,       \* index of the next instruction of prog
    result,   \* "none", "running", "returned" or the name of the exception raised
    frame,    \* the callee frame of the polling primitive being executed
    now,      \* time.monotonic(), in ticks since the last call of a polling primitive began
    trace,    \* register writes and completed waits of the call, in order
    lpc,      \* LSS functions: label of the next statement
    lss,      \* LSS functions: local variables
    lssLog,   \* LSS / NMT service calls issued, in order
    session,  \* example scripts: main()'s position, locals and the CAN connection
    bus       \* example scripts: the LSS devices on the bus

vars == <<call, prog, pc, result, frame, now, trace, lpc, lss, lssLog, session, bus>>
driveVars == <<call, prog, pc, result, frame, now, trace>>
mainVars == <<session, bus>>
lssVars == <<lpc, lss, lssLog, mainVars>>

----------------------------------------------------------------------------
(* Bounds *)

MaxTimeout == 3
MaxInterval == 2
MaxReads == 5
DefaultTimeout == 1
\* set-points of position_mode_trajectory that are modelled
MaxPoints == 3
\* passes of the outer loop of position_loop and targets of its list that
\* are modelled
MaxPasses == 3
MaxPositions == 2
\* calls of homing() on one node that are modelled
MaxCalls == 2

----------------------------------------------------------------------------
(* Bit manipulation utilities *)

RECURSIVE BitAnd(_, _)
BitAnd(a, b) ==
    IF a = 0 \/ b = 0 THEN 0
    ELSE (a % 2) * (b % 2) + 2 * BitAnd(a \div 2, b \div 2)

RECURSIVE BitOr(_, _)
BitOr(a, b) ==
    IF a = 0 THEN b
    ELSE IF b = 0 THEN a
    ELSE (IF a % 2 = 1 \/ b % 2 = 1 THEN 1 ELSE 0) + 2 * BitOr(a \div 2, b \div 2)

AndNot(a, b) == a - BitAnd(a, b)

BIT(n) == 2 ^ n

----------------------------------------------------------------------------
(* Enumerations of parameters.py *)

SWITCH_ON_DISABLED == "SWITCH ON DISABLED"
READY_TO_SWITCH_ON == "READY TO SWITCH ON"
SWITCH_ON == "SWITCHED ON"
OPERATION_ENABLED == "OPERATION ENABLED"

NodeState == {SWITCH_ON_DISABLED, READY_TO_SWITCH_ON, SWITCH_ON, OPERATION_ENABLED}

HOMING == 6
PROFILE_POSITION == 1
OFF == 0
NodeOperationMode == {HOMING, PROFILE_POSITION, OFF}

NEG_INDEX == 33
POS_INDEX == 34

\* settings.py
NODE_ID == 32

\* common/parameters.py: "load" and "save" as little-endian words, the logging flags
RESTORE_ALL_DEFAULT_PARAMETERS == 1684107116
SAVE_ALL_PARAMETERS == 1702257011
DEFAULT_STATUS_LOGGING == 11
\* LEDMask.ALL
LED_ALL == 7

----------------------------------------------------------------------------
(* What the device may answer *)

\* node.state: the power state the device reports
ReportedStates == NodeState \cup {"FAULT"}

\* node.sdo["Mode of operation"].raw
ReportedModes == NodeOperationMode

\* the statusword of the last received TPDO: bit 10 target reached,
\* bit 12 set-point acknowledge / homing attained
Statuswords == {0, BIT(10), BIT(12), BIT(10) + BIT(12)}

\* node.sdo["Controlword"].raw, read in OPERATION ENABLED: the enable pattern,
\* with or without bit 4
Controlwords == {15, 31}

\* masks given to wait_for_statusword_flags
Masks == {BIT(10), BIT(12), BIT(10) + BIT(12)}

Offsets == {<<>>, <<2000>>}

Targets == {-10000, 10000}

----------------------------------------------------------------------------
(* Instructions and trace events *)

Ins(i, s, v, e, iv, to, h) ==
    [i |-> i, s |-> s, v |-> v, e |-> e, iv |-> iv, to |-> to, h |-> h]

\* set_node_state(node, state, timeout)
CallState(state, timeout) == Ins("STATE", state, 0, TRUE, 1, timeout, 0)
\* set_node_operation_mode(node, mode, timeout)
CallMode(mode, timeout) == Ins("MODE", "", mode, TRUE, 1, timeout, 0)
\* wait_for_statusword_flags(node, flags, expected_flag_state, time_interval, timeout);
\* h is the first instruction of the enclosing except Exception handler, 0 without one
CallWait(flags, expected, interval, timeout, h) ==
    Ins("WAIT", "", flags, expected, interval, timeout, h)
\* node.sdo[name].raw = value
SdoWrite(name, value) == Ins("SDO", name, value, TRUE, 0, 0, 0)
\* ... = node.sdo[name].raw
SdoRead(name) == Ins("SDOREAD", name, 0, TRUE, 0, 0, 0)
\* set_controlword(node, controlword)
SetCw(controlword) == Ins("CW", "", controlword, TRUE, 0, 0, 0)
\* node.controlword = node.sdo["Controlword"].raw | mask   (set)
\* node.controlword = node.sdo["Controlword"].raw & ~mask  (not set)
CwRmw(mask, set) == Ins("CWRMW", "", mask, set, 0, 0, 0)
\* set_target_position(node, target_position, profile_velocity)
SetTarget(position, with_velocity) == Ins("TARGET", "", position, with_velocity, 0, 0, 0)
\* time.sleep(ticks)
Sleep(ticks) == Ins("SLEEP", "", 0, TRUE, ticks, 0, 0)
Return == Ins("RETURN", "", 0, TRUE, 0, 0, 0)
\* node.nmt.state = state
Nmt(state) == Ins("NMT", state, 0, TRUE, 0, 0, 0)
\* a blocking call into the canopen library: node.nmt.wait_for_bootup(..),
\* node.load_configuration(), node.tpdo.read(), ...
Lib(name) == Ins("LIB", name, 0, TRUE, 0, 0, 0)
\* for i in range(..): the loop variable takes the value i
For(i) == Ins("FOR", "i", i, TRUE, 0, 0, 0)
\* log.warning(..) / log.error(..) in pass i of a loop
Log(level, i) == Ins("LOG", level, i, TRUE, 0, 0, 0)
\* the end of a loop body or of an except block: control goes to target
Jump(target) == Ins("JUMP", "", target, TRUE, 0, 0, 0)
\* the instructions of a try block whose except Exception handler starts at h
WithHandler(program, h) == [k \in 1..Len(program) |-> [program[k] EXCEPT !.h = h]]
\* what the text of an exception names: the node (f"Node {node.id}: ...")
\* and the condition that was awaited
Message(node, awaited) == [node |-> node, awaited |-> awaited]
NoMessage == Message(<<>>, <<>>)

Raise(exc, msg) ==
    [i |-> "RAISE", s |-> exc, v |-> 0, e |-> TRUE, iv |-> 0, to |-> 0, h |-> 0, msg |-> msg]

Ev(k, s, v, e) == [k |-> k, s |-> s, v |-> v, e |-> e]

IsWrite(ev) == ev.k \notin {"waited", "confirmed"}
IsCw(ev) == ev.k = "cw"

NoFrame ==
    [fn |-> "none", pc |-> "none", state |-> "", val |-> 0, expected |-> TRUE,
     interval |-> 0, timeout |-> 0, time_limit |-> 0, t0 |-> 0,
     seen |-> <<>>, seenState |-> <<>>, sleeps |-> 0, exc |-> "", base |-> 0,
     msg |-> NoMessage,
     \* the object-dictionary entry the poll loop reads
     reg |-> "",
     \* the call directly follows a controlword write; the statusword that
     \* satisfied the wait was sent before the device processed that write
     unsettled |-> FALSE, stale |-> FALSE]

----------------------------------------------------------------------------
(* Sequencers, as programs *)

\* mutant: the mode is selected after OPERATION ENABLED
setup_profile_position_enable_first ==
    << CallState(SWITCH_ON_DISABLED, DefaultTimeout),
       CallState(READY_TO_SWITCH_ON, DefaultTimeout),
       CallState(SWITCH_ON, DefaultTimeout),
       SdoWrite("Position window", 5),
       SdoWrite("Position window time", 50),
       CallState(OPERATION_ENABLED, DefaultTimeout),
       CallMode(PROFILE_POSITION, DefaultTimeout),
       Sleep(1) >>

\* mode_pp_set_of_set_points.py
setup_profile_position ==
    << CallState(SWITCH_ON_DISABLED, DefaultTimeout),
       CallState(READY_TO_SWITCH_ON, DefaultTimeout),
       CallState(SWITCH_ON, DefaultTimeout),
       CallMode(PROFILE_POSITION, DefaultTimeout),
       SdoWrite("Position window", 5),
       SdoWrite("Position window time", 50),
       CallState(OPERATION_ENABLED, DefaultTimeout),
       Sleep(1) >>

cleanup_profile_position ==
    << CallState(SWITCH_ON, DefaultTimeout),
       CallState(READY_TO_SWITCH_ON, DefaultTimeout) >>

position_mode_normal ==
    LET cw == 15
        target_position == 10000
    IN  setup_profile_position
        \o << SetCw(cw),
              SetTarget(target_position, TRUE),
              SetCw(BitOr(cw, BIT(4))),
              CallWait(BIT(12), TRUE, 1, DefaultTimeout, 0),
              SetCw(AndNot(cw, BIT(4))),
              CallWait(BIT(12), FALSE, 1, DefaultTimeout, 0),
              CallWait(BIT(10), TRUE, 1, DefaultTimeout, 0),
              SdoRead("Position Actual Value") >>
        \o cleanup_profile_position
        \o << Return >>

\* mode_profile_position.py
send_position_command(target_pos) ==
    LET cw == 15
    IN  << SetCw(cw),
           SetTarget(target_pos, FALSE),
           SetCw(BitOr(cw, BIT(4))),
           CallWait(BIT(12), TRUE, 1, DefaultTimeout, 0),
           SetCw(AndNot(cw, BIT(4))),
           CallWait(BIT(10), TRUE, 1, DefaultTimeout, 0),
           Return >>

\* mutant: homing is started before OPERATION ENABLED is requested
homing_start_before_enable(direction_positive, offset) ==
    LET method == IF direction_positive THEN POS_INDEX ELSE NEG_INDEX
        head ==
            << CallState(SWITCH_ON_DISABLED, DefaultTimeout),
               CallState(READY_TO_SWITCH_ON, DefaultTimeout),
               CallState(SWITCH_ON, DefaultTimeout),
               CallMode(HOMING, DefaultTimeout) >>
            \o (IF offset # <<>> THEN << SdoWrite("Home offset", offset[1]) >> ELSE <<>>)
            \o << SdoWrite("Homing method", method),
                  SetCw(BitOr(15, BIT(4))),
                  CallState(OPERATION_ENABLED, DefaultTimeout),
                  Sleep(1) >>
        n == Len(head)
    IN  head
        \o << CallWait(BIT(12), TRUE, 1, DefaultTimeout, n + 5),
              SetCw(15),
              CallState(SWITCH_ON, DefaultTimeout),
              Return,
              SetCw(15),
              Raise("RuntimeError", NoMessage) >>

\* mutant: the start controlword is written a second time after the settle delay
homing_start_twice(direction_positive, offset) ==
    LET method == IF direction_positive THEN POS_INDEX ELSE NEG_INDEX
        head ==
            << CallState(SWITCH_ON_DISABLED, DefaultTimeout),
               CallState(READY_TO_SWITCH_ON, DefaultTimeout),
               CallState(SWITCH_ON, DefaultTimeout),
               CallMode(HOMING, DefaultTimeout) >>
            \o (IF offset # <<>> THEN << SdoWrite("Home offset", offset[1]) >> ELSE <<>>)
            \o << SdoWrite("Homing method", method),
                  CallState(OPERATION_ENABLED, DefaultTimeout),
                  SetCw(BitOr(15, BIT(4))),
                  Sleep(1),
                  SetCw(BitOr(15, BIT(4))) >>
        n == Len(head)
    IN  head
        \o << CallWait(BIT(12), TRUE, 1, DefaultTimeout, n + 5),
              SetCw(15),
              CallState(SWITCH_ON, DefaultTimeout),
              Return,
              SetCw(15),
              Raise("RuntimeError", NoMessage) >>

\* mutant: SWITCHED ON is requested before bit 4 is cleared
homing_switch_on_before_clear(direction_positive, offset) ==
    LET method == IF direction_positive THEN POS_INDEX ELSE NEG_INDEX
        head ==
            << CallState(SWITCH_ON_DISABLED, DefaultTimeout),
               CallState(READY_TO_SWITCH_ON, DefaultTimeout),
               CallState(SWITCH_ON, DefaultTimeout),
               CallMode(HOMING, DefaultTimeout) >>
            \o (IF offset # <<>> THEN << SdoWrite("Home offset", offset[1]) >> ELSE <<>>)
            \o << SdoWrite("Homing method", method),
                  CallState(OPERATION_ENABLED, DefaultTimeout),
                  SetCw(BitOr(15, BIT(4))),
                  Sleep(1) >>
        n == Len(head)
    IN  head
        \o << CallWait(BIT(12), TRUE, 1, DefaultTimeout, n + 5),
              CallState(SWITCH_ON, DefaultTimeout),
              SetCw(15),
              Return,
              SetCw(15),
              Raise("RuntimeError", NoMessage) >>

\* examples/common/utils.py
homing(direction_positive, offset) ==
    LET method == IF direction_positive THEN POS_INDEX ELSE NEG_INDEX
        head ==
            << CallState(SWITCH_ON_DISABLED, DefaultTimeout),
               CallState(READY_TO_SWITCH_ON, DefaultTimeout),
               CallState(SWITCH_ON, DefaultTimeout),
               CallMode(HOMING, DefaultTimeout) >>
            \o (IF offset # <<>> THEN << SdoWrite("Home offset", offset[1]) >> ELSE <<>>)
            \o << SdoWrite("Homing method", method),
                  CallState(OPERATION_ENABLED, DefaultTimeout),
                  SetCw(BitOr(15, BIT(4))),
                  Sleep(1) >>
        n == Len(head)
    IN  head
        \o << CallWait(BIT(12), TRUE, 1, DefaultTimeout, n + 5),   \* try
              SetCw(15),
              CallState(SWITCH_ON, DefaultTimeout),
              Return,
              SetCw(15),                                           \* except Exception
              Raise("RuntimeError", NoMessage) >>

\* src/utils.py: homing(node, direction_positive=True, offset=0); an offset
\* that is not supplied is the default 0
homing_src_utils(direction_positive, offset) ==
    LET method == IF direction_positive THEN POS_INDEX ELSE NEG_INDEX
        head ==
            << CallState(SWITCH_ON_DISABLED, DefaultTimeout),
               CallState(READY_TO_SWITCH_ON, DefaultTimeout),
               CallState(SWITCH_ON, DefaultTimeout),
               CallMode(HOMING, DefaultTimeout),
               CallState(OPERATION_ENABLED, DefaultTimeout),
               SdoWrite("Home offset", IF offset # <<>> THEN offset[1] ELSE 0),
               SdoWrite("Homing method", method),
               SetCw(BitOr(15, BIT(4))),
               Sleep(1) >>
        n == Len(head)
    IN  head
        \o << CallWait(BIT(12), TRUE, 1, DefaultTimeout, n + 5),   \* try
              SetCw(15),
              CallState(SWITCH_ON, DefaultTimeout),
              Return,
              SetCw(15),                                           \* except Exception
              Raise("RuntimeError", NoMessage) >>

\* src/example_profile_position.py; transition_402_cw_state and set_control_mode
\* are the state-machine driver and the mode selector
homing_example_profile_position(direction_positive) ==
    LET method == IF direction_positive THEN POS_INDEX ELSE NEG_INDEX
    IN  << CallState(SWITCH_ON_DISABLED, DefaultTimeout),
           CallState(READY_TO_SWITCH_ON, DefaultTimeout),
           CallState(SWITCH_ON, DefaultTimeout),
           CallMode(HOMING, DefaultTimeout),
           CallState(OPERATION_ENABLED, DefaultTimeout),
           SdoWrite("Home offset", 0),
           SdoWrite("Homing method", method),
           CwRmw(BIT(4), TRUE),
           CallWait(BIT(12), TRUE, 1, DefaultTimeout, 12),         \* try
           CwRmw(BIT(4), FALSE),
           Return,
           CwRmw(BIT(4), FALSE),                                   \* except Exception
           Return >>

\* mode_pp_set_of_set_points.py
position_mode_constant_velocity ==
    LET cw == BitOr(15, BIT(9))
        target_position == 10000
    IN  setup_profile_position
        \o << SetCw(cw),
              SetTarget(target_position, TRUE),
              SetCw(BitOr(cw, BIT(4))),
              CallWait(BIT(12), TRUE, 1, DefaultTimeout, 0),
              SetCw(AndNot(cw, BIT(4))),
              CallWait(BIT(12), FALSE, 1, DefaultTimeout, 0),
              CallWait(BIT(10), TRUE, 1, DefaultTimeout, 0),
              SdoRead("Position Actual Value") >>
        \o cleanup_profile_position
        \o << Return >>

\* mutant: the wait for the acknowledge to be cleared is left out
set_point_no_clear_wait(cw, pos) ==
    << SetTarget(pos, TRUE),
       SetCw(BitOr(cw, BIT(4))),
       CallWait(BIT(12), TRUE, 1, DefaultTimeout, 0),
       SetCw(AndNot(cw, BIT(4))) >>

\* one set-point of a chained motion: target, bit 4 set, acknowledge set,
\* bit 4 cleared, acknowledge cleared
set_point(cw, pos) ==
    << SetTarget(pos, TRUE),
       SetCw(BitOr(cw, BIT(4))),
       CallWait(BIT(12), TRUE, 1, DefaultTimeout, 0),
       SetCw(AndNot(cw, BIT(4))),
       CallWait(BIT(12), FALSE, 1, DefaultTimeout, 0) >>

position_mode_set_of_set_points ==
    LET cw == BitOr(15, BIT(9))
        target_position_1 == 10000
        target_position_2 == 15000
    IN  setup_profile_position
        \o << SetCw(cw) >>
        \o set_point(cw, target_position_1)
        \o set_point(cw, target_position_2)
        \o << CallWait(BIT(10), TRUE, 1, DefaultTimeout, 0),
              SdoRead("Position Actual Value") >>
        \o cleanup_profile_position
        \o << Return >>

\* the first rows of the table of position_mode_trajectory
position_data == SubSeq(<< 13500, 12450, 11400, 10350, 9300, 8250 >>, 1, MaxPoints)

RECURSIVE set_points(_, _)
set_points(cw, positions) ==
    IF positions = <<>> THEN <<>>
    ELSE set_point(cw, Head(positions)) \o set_points(cw, Tail(positions))

position_mode_trajectory ==
    LET cw == BitOr(15, BIT(9))
    IN  setup_profile_position
        \o << SetCw(cw) >>
        \o set_points(cw, position_data)
        \o << CallWait(BIT(10), TRUE, 1, DefaultTimeout, 0),
              SdoRead("Position Actual Value"),
              Sleep(1),
              Return >>

\* mode_profile_position.py: NodeOperationMode has no member TRAJECTORY, the
\* argument of set_node_operation_mode raises AttributeError
position_loop ==
    << CallState(SWITCH_ON_DISABLED, DefaultTimeout),
       CallState(READY_TO_SWITCH_ON, DefaultTimeout),
       CallState(SWITCH_ON, DefaultTimeout),
       Raise("AttributeError", NoMessage) >>

\* src/example_profile_position.py
send_position_command_example_profile_position(target_pos) ==
    << SdoWrite("Target Position", target_pos),
       CwRmw(BIT(4), TRUE),
       CallWait(BIT(12), TRUE, 1, DefaultTimeout, 0),
       CwRmw(BIT(4), FALSE),
       CallWait(BIT(10), TRUE, 1, DefaultTimeout, 0),
       SdoRead("Position Actual Value") >>

\* src/example_profile_position.py.  The loops are unrolled: section (i, err)
\* is pass i of `for i in range(..)` entered with err_count = err.  Its
\* except handler logs the warning and goes to the next pass with
\* err_count + 1, or, once err_count reaches 2, to the log.error and the
\* break that leave the loop.
position_loop_example_profile_position ==
    LET prelude ==
            << CallState(SWITCH_ON_DISABLED, DefaultTimeout),
               CallState(READY_TO_SWITCH_ON, DefaultTimeout),
               CallState(SWITCH_ON, DefaultTimeout),
               CallMode(PROFILE_POSITION, DefaultTimeout),
               SdoWrite("Position window", 5),
               SdoWrite("Position window time", 50),
               CallState(OPERATION_ENABLED, DefaultTimeout) >>
        positions == SubSeq(<< -10000, -5000, 0, 5000, 10000, 5000, 0, -5000 >>, 1, MaxPositions)
        commands[k \in 1..(Len(positions) + 1)] ==
            IF k > Len(positions) THEN <<>>
            ELSE send_position_command_example_profile_position(positions[k])
                 \o << Sleep(1) >> \o commands[k + 1]
        body == commands[1]
        L == Len(body) + 4
        P == Len(prelude)
        stop == P + 2 * MaxPasses * L + 1
        after == stop + 1
        start(i, err) == P + ((i - 1) * 2 + err) * L + 1
        next(i, err) == IF i < MaxPasses THEN start(i + 1, err) ELSE after
        handler(i, err) == start(i, err) + Len(body) + 2
        section(k) ==
            LET i == (k \div 2) + 1
                err == k % 2
            IN  << For(i) >>
                \o WithHandler(body, handler(i, err))
                \o << Jump(next(i, err)),
                      Log("warning", i),                                \* except Exception
                      Jump(IF err + 1 >= 2 THEN stop ELSE next(i, err + 1)) >>
        sections[k \in 0..(2 * MaxPasses)] ==
            IF k = 2 * MaxPasses THEN <<>> ELSE section(k) \o sections[k + 1]
    IN  prelude
        \o sections[0]
        \o << Log("error", 0),                                         \* break
              CallState(SWITCH_ON, DefaultTimeout),
              CallState(READY_TO_SWITCH_ON, DefaultTimeout),
              Return >>

\* common/utils.py
configure_node ==
    << Nmt("RESET"),
       Lib("wait_for_bootup"),
       Lib("load_configuration"),
       Lib("setup_402_state_machine"),
       Nmt("OPERATIONAL"),
       Lib("tpdo.read"),
       Lib("rpdo.read") >>

\* common/utils.py
reset_node ==
    << Nmt("RESET"),
       Lib("wait_for_bootup") >>

\* configuration.py: NodeOperationMode has no member TRAJECTORY, the right-hand
\* side of the third assignment raises AttributeError
reset_and_setup_logging ==
    << SdoWrite("Restore Default Parameters[1]", RESTORE_ALL_DEFAULT_PARAMETERS),
       SdoWrite("Status logging verbosity flags", DEFAULT_STATUS_LOGGING),
       Raise("AttributeError", NoMessage) >>

configure_io ==
    << SdoWrite("I/O Configuration[1]", 0),
       SdoWrite("I/O Configuration[2]", 0),
       SdoWrite("I/O Configuration[3]", 0),
       SdoWrite("I/O Configuration[4]", 0),
       SdoWrite("LED Configuration", LED_ALL) >>

\* all four enable_*_override flags are False
configure_input_overrides ==
    << SdoWrite("I/O Override Enable", 0),
       SdoWrite("Hybrid control switch point", 40) >>

\* settings.py: ENC_RES = EncoderRes.ENC_RES_1MU, INC_PER_MM = 1_000_000.0 / 1007.9
configure_motion_parameters ==
    << SdoWrite("Motor phase bounds[1]", 0),
       SdoWrite("Motor phase bounds[2]", 90),
       SdoWrite("Motor phase bounds[3]", 90),
       SdoWrite("Motor duty cycle bounds[1]", 20),
       SdoWrite("Motor duty cycle bounds[2]", 50),
       SdoWrite("Motor duty cycle bounds[3]", 50),
       SdoWrite("Profile velocity", 198432),
       SdoWrite("Profile acceleration", 992161),
       SdoWrite("Max profile velocity", 396864),
       SdoWrite("Max acceleration", 2976485),
       SdoWrite("Profile jerk[1]", 992161920),
       SdoWrite("Software position limit[1]", 0),
       SdoWrite("Software position limit[2]", 0) >>

configure_homing_parameters ==
    << SdoWrite("Home offset", 0),
       SdoWrite("Homing parameters[1]", 250),
       SdoWrite("Homing parameters[2]", 2),
       SdoWrite("Homing parameters[3]", 100),
       SdoWrite("Homing speeds[2]", 50),
       SdoWrite("Homing acceleration", 10000) >>

save_configuration ==
    << SdoWrite("Store Parameter Field[1]", SAVE_ALL_PARAMETERS) >>

\* configuration.py: main() from configure_node(node) to reset_node(node)
configuration_main ==
    configure_node
    \o reset_and_setup_logging
    \o configure_io
    \o configure_input_overrides
    \o configure_motion_parameters
    \o configure_homing_parameters
    \o save_configuration
    \o reset_node
    \o << Return >>

\* The classes of the exceptions given to error_handler, each with the classes
\* it is an instance of (isinstance follows the base classes)
Bases ==
    [SdoAbortedError |-> {"SdoAbortedError", "SdoError", "Exception"},
     SdoCommunicationError |-> {"SdoCommunicationError", "SdoError", "Exception"},
     LssError |-> {"LssError", "Exception"},
     NmtError |-> {"NmtError", "Exception"},
     CanError |-> {"CanError", "Exception"},
     CanTimeoutError |-> {"CanTimeoutError", "CanError", "TimeoutError", "OSError", "Exception"},
     TimeoutError |-> {"TimeoutError", "OSError", "Exception"},
     FileNotFoundError |-> {"FileNotFoundError", "OSError", "Exception"},
     ConnectionError |-> {"ConnectionError", "OSError", "Exception"},
     ConnectionRefusedError |-> {"ConnectionRefusedError", "ConnectionError", "OSError", "Exception"},
     AttributeError |-> {"AttributeError", "Exception"},
     RuntimeError |-> {"RuntimeError", "Exception"}]

ExceptionClasses == DOMAIN Bases

isinstance(exc, class) == class \in Bases[exc]

\* mutant: the timeout branch is tested before the CAN branch
error_category_timeout_first(exc) ==
    IF isinstance(exc, "SdoAbortedError") THEN "SDO abort"
    ELSE IF isinstance(exc, "LssError") THEN "LSS"
    ELSE IF isinstance(exc, "NmtError") THEN "NMT"
    ELSE IF isinstance(exc, "TimeoutError") THEN "timeout"
    ELSE IF isinstance(exc, "CanError") THEN "CAN"
    ELSE IF isinstance(exc, "FileNotFoundError") THEN "file not found"
    ELSE IF isinstance(exc, "ConnectionError") THEN "connection"
    ELSE "other"

\* common/utils.py, error_handler: the branch of the if / elif chain that logs
error_category(exc) ==
    IF isinstance(exc, "SdoAbortedError") THEN "SDO abort"
    ELSE IF isinstance(exc, "LssError") THEN "LSS"
    ELSE IF isinstance(exc, "NmtError") THEN "NMT"
    ELSE IF isinstance(exc, "CanError") THEN "CAN"
    ELSE IF isinstance(exc, "TimeoutError") THEN "timeout"
    ELSE IF isinstance(exc, "FileNotFoundError") THEN "file not found"
    ELSE IF isinstance(exc, "ConnectionError") THEN "connection"
    ELSE "other"

\* common/utils.py: error_handler(exc, rethrow); Log names the branch
error_handler(exc, rethrow) ==
    << Log(error_category(exc), 0) >>
    \o (IF rethrow THEN << Raise(exc, NoMessage) >> ELSE <<>>)
    \o << Return >>

\* a primitive called on its own
call_set_node_state(state, timeout) == << CallState(state, timeout), Return >>
call_set_node_operation_mode(mode, timeout) == << CallMode(mode, timeout), Return >>
call_wait_for_statusword_flags(flags, expected_flag_state, time_interval, timeout) ==
    << CallWait(flags, expected_flag_state, time_interval, timeout, 0), Return >>

----------------------------------------------------------------------------
(* Starting a call *)

Start(name, program) ==
    /\ call = "idle"
    /\ lpc = "idle"
    /\ call' = name
    /\ prog' = program
    /\ pc' = 1
    /\ result' = "running"
    /\ UNCHANGED <<frame, now, trace, lssVars>>

start_homing ==
    \E d \in BOOLEAN, o \in Offsets : Start("homing", homing(d, o))

\* homing(node) called on a node as the scripts' main() calls it, with the
\* default arguments, and after it has ended another sequencer called on the
\* same node: homing(node) again, or position_loop(node) as in
\* mode_profile_position.py; the trace runs on across the calls
start_homing_sequence ==
    Start("homing_sequence", homing(TRUE, <<>>))

homing_again ==
    /\ call = "homing_sequence"
    /\ result \notin {"none", "running"}
    /\ Len(SelectSeq(trace, LAMBDA ev : ev.k = "called")) + 1 < MaxCalls
    /\ \/ /\ prog' = homing(TRUE, <<>>)
          /\ trace' = Append(trace, Ev("called", "homing", 0, TRUE))
       \/ /\ prog' = position_loop
          /\ trace' = Append(trace, Ev("called", "position_loop", 0, TRUE))
    /\ pc' = 1
    /\ result' = "running"
    /\ UNCHANGED <<call, frame, now, lssVars>>

start_homing_src_utils ==
    \E d \in BOOLEAN, o \in Offsets : Start("homing_src_utils", homing_src_utils(d, o))

start_homing_example_profile_position ==
    \E d \in BOOLEAN :
        Start("homing_example_profile_position", homing_example_profile_position(d))

\* error_handler(exc, rethrow) called; the trace starts with its arguments
start_error_handler ==
    /\ call = "idle"
    /\ lpc = "idle"
    /\ \E exc \in ExceptionClasses, rethrow \in BOOLEAN :
        /\ prog' = error_handler(exc, rethrow)
        /\ trace' = << Ev("exc", exc, 0, rethrow) >>
    /\ call' = "error_handler"
    /\ pc' = 1
    /\ result' = "running"
    /\ UNCHANGED <<frame, now, lssVars>>

start_configuration_main ==
    Start("configuration_main", configuration_main)

start_send_position_command ==
    \E t \in Targets : Start("send_position_command", send_position_command(t))

start_position_mode_normal ==
    Start("position_mode_normal", position_mode_normal)

start_position_mode_constant_velocity ==
    Start("position_mode_constant_velocity", position_mode_constant_velocity)

start_position_mode_set_of_set_points ==
    Start("position_mode_set_of_set_points", position_mode_set_of_set_points)

start_position_mode_trajectory ==
    Start("position_mode_trajectory", position_mode_trajectory)

start_position_loop ==
    Start("position_loop", position_loop)

start_position_loop_example_profile_position ==
    Start("position_loop_example_profile_position", position_loop_example_profile_position)

start_set_node_state ==
    \E s \in NodeState, t \in 0..MaxTimeout :
        Start("set_node_state", call_set_node_state(s, t))

start_set_node_operation_mode ==
    \E m \in NodeOperationMode, t \in 0..MaxTimeout :
        Start("set_node_operation_mode", call_set_node_operation_mode(m, t))

start_wait_for_statusword_flags ==
    \E f \in Masks, e \in BOOLEAN, i \in 0..MaxInterval, t \in 0..MaxTimeout :
        Start("wait_for_statusword_flags", call_wait_for_statusword_flags(f, e, i, t))

----------------------------------------------------------------------------
(* Executing an instruction of the running program *)

Running == result = "running"
Cur == prog[pc]
AtIns(kinds) == Running /\ frame.fn = "none" /\ Cur.i \in kinds

\* An exception raised at the current instruction: an Exception inside a try
\* block goes to its handler, anything else leaves the function.
Throw(exc) ==
    IF exc # "KeyboardInterrupt" /\ Cur.h # 0
    THEN pc' = Cur.h /\ UNCHANGED result
    ELSE result' = exc /\ UNCHANGED pc

FrameOf(kind) ==
    CASE kind = "STATE" -> "set_node_state"
      [] kind = "MODE" -> "set_node_operation_mode"
      [] kind = "WAIT" -> "wait_for_statusword_flags"

\* time.monotonic() has an undefined reference point and the code only takes
\* differences within one call, so the clock is read relative to the call's start
StepCall ==
    /\ AtIns({"STATE", "MODE", "WAIT"})
    /\ frame' = [NoFrame EXCEPT !.fn = FrameOf(Cur.i), !.pc = "enter",
                                !.state = Cur.s, !.val = Cur.v, !.expected = Cur.e,
                                !.interval = Cur.iv, !.timeout = Cur.to,
                                !.t0 = 0, !.base = Len(trace),
                                !.unsettled = pc > 1 /\ prog[pc - 1].i \in {"CW", "CWRMW"}]
    /\ now' = 0
    /\ UNCHANGED <<call, prog, pc, result, trace, lssVars>>

StepSdoWrite ==
    /\ AtIns({"SDO"})
    /\ \E outcome \in {"ok", "SdoAbortedError", "KeyboardInterrupt"} :
        IF outcome = "ok"
        THEN /\ trace' = Append(trace, Ev("sdo", Cur.s, Cur.v, TRUE))
             /\ pc' = pc + 1
             /\ UNCHANGED result
        ELSE Throw(outcome) /\ UNCHANGED trace
    /\ UNCHANGED <<call, prog, frame, now, lssVars>>

StepSdoRead ==
    /\ AtIns({"SDOREAD"})
    /\ \E outcome \in {"ok", "SdoAbortedError", "KeyboardInterrupt"} :
        IF outcome = "ok"
        THEN pc' = pc + 1 /\ UNCHANGED result
        ELSE Throw(outcome)
    /\ UNCHANGED <<call, prog, frame, now, trace, lssVars>>

set_controlword ==
    /\ AtIns({"CW"})
    /\ trace' = Append(trace, Ev("cw", "", Cur.v, TRUE))
    /\ pc' = pc + 1
    /\ UNCHANGED <<call, prog, result, frame, now, lssVars>>

StepCwRmw ==
    /\ AtIns({"CWRMW"})
    /\ \E outcome \in {"ok", "SdoAbortedError", "KeyboardInterrupt"} :
        IF outcome = "ok"
        THEN /\ \E c \in Controlwords :
                    trace' = Append(trace,
                        Ev("cw", "", IF Cur.e THEN BitOr(c, Cur.v) ELSE AndNot(c, Cur.v), TRUE))
             /\ pc' = pc + 1
             /\ UNCHANGED result
        ELSE Throw(outcome) /\ UNCHANGED trace
    /\ UNCHANGED <<call, prog, frame, now, lssVars>>

set_target_position ==
    /\ AtIns({"TARGET"})
    /\ trace' = Append(trace, Ev("target", "", Cur.v, Cur.e))
    /\ pc' = pc + 1
    /\ UNCHANGED <<call, prog, result, frame, now, lssVars>>

StepSleep ==
    /\ AtIns({"SLEEP"})
    /\ \E outcome \in {"ok", "KeyboardInterrupt"} :
        IF outcome = "ok"
        THEN now' = now + Cur.iv /\ pc' = pc + 1 /\ UNCHANGED result
        ELSE Throw(outcome) /\ UNCHANGED now
    /\ UNCHANGED <<call, prog, frame, trace, lssVars>>

\* the loop variable assigned, a line logged
StepLog ==
    /\ AtIns({"FOR", "LOG"})
    /\ trace' = Append(trace, Ev(IF Cur.i = "FOR" THEN "for" ELSE "log", Cur.s, Cur.v, TRUE))
    /\ pc' = pc + 1
    /\ UNCHANGED <<call, prog, result, frame, now, lssVars>>

StepJump ==
    /\ AtIns({"JUMP"})
    /\ pc' = Cur.v
    /\ UNCHANGED <<call, prog, result, frame, now, trace, lssVars>>

StepReturn ==
    /\ AtIns({"RETURN"})
    /\ result' = "returned"
    /\ UNCHANGED <<call, prog, pc, frame, now, trace, lssVars>>

\* node.nmt.state = ...: the NMT command is sent
StepNmt ==
    /\ AtIns({"NMT"})
    /\ trace' = Append(trace, Ev("nmt", Cur.s, 0, TRUE))
    /\ pc' = pc + 1
    /\ UNCHANGED <<call, prog, result, frame, now, lssVars>>

\* a library call returns, raises or is interrupted
StepLib ==
    /\ AtIns({"LIB"})
    /\ \E outcome \in {"ok", "failed", "KeyboardInterrupt"} :
        CASE outcome = "ok" -> pc' = pc + 1 /\ UNCHANGED result
          [] outcome = "failed" ->
                Throw(IF Cur.s = "wait_for_bootup" THEN "NmtError" ELSE "SdoAbortedError")
          [] outcome = "KeyboardInterrupt" -> Throw(outcome)
    /\ UNCHANGED <<call, prog, frame, now, trace, lssVars>>

StepRaise ==
    /\ AtIns({"RAISE"})
    /\ Throw(Cur.s)
    /\ UNCHANGED <<call, prog, frame, now, trace, lssVars>>

\* the primitive returned: the caller goes on
FrameReturn ==
    /\ Running
    /\ frame.pc = "returned"
    /\ pc' = pc + 1
    /\ trace' = Append(trace,
                CASE frame.fn = "wait_for_statusword_flags" ->
                        Ev("waited", "", frame.val, frame.expected)
                  [] frame.fn = "set_node_state" ->
                        Ev("confirmed", frame.state, 0, TRUE)
                  [] frame.fn = "set_node_operation_mode" ->
                        Ev("confirmed", "Mode of operation", frame.val, TRUE))
    /\ frame' = NoFrame
    /\ UNCHANGED <<call, prog, result, now, lssVars>>

\* the primitive raised: the exception reaches the caller
FrameRaise ==
    /\ Running
    /\ frame.pc = "raised"
    /\ Throw(frame.exc)
    /\ frame' = NoFrame
    /\ UNCHANGED <<call, prog, now, trace, lssVars>>

----------------------------------------------------------------------------
(* set_node_state *)

InFrame(fn, at) == Running /\ frame.fn = fn /\ frame.pc = at

\* node.state = state.value ; time_limit = time.monotonic() + timeout
set_node_state_write ==
    /\ InFrame("set_node_state", "enter")
    /\ trace' = Append(trace, Ev("state", frame.state, 0, TRUE))
    /\ frame' = [frame EXCEPT !.pc = "loop", !.time_limit = now + frame.timeout]
    /\ UNCHANGED <<call, prog, pc, result, now, lssVars>>

\* mutant: the write is trusted, the reported state is never read
set_node_state_poll_trusting ==
    /\ InFrame("set_node_state", "loop")
    /\ frame' = [frame EXCEPT !.pc = "returned"]
    /\ UNCHANGED <<call, prog, pc, result, now, trace, lssVars>>

\* mutant: a read that does not match re-issues the state write
set_node_state_poll_retry ==
    /\ InFrame("set_node_state", "loop")
    /\ IF now < frame.time_limit
       THEN \E s \in ReportedStates :
                /\ frame' = [frame EXCEPT !.seenState = Append(@, s),
                                          !.pc = IF s = frame.state THEN "returned" ELSE "sleep"]
                /\ trace' = IF s = frame.state THEN trace
                            ELSE Append(trace, Ev("state", frame.state, 0, TRUE))
       ELSE frame' = [frame EXCEPT !.pc = "raised", !.exc = "TimeoutError"] /\ UNCHANGED trace
    /\ UNCHANGED <<call, prog, pc, result, now, lssVars>>

\* while time.monotonic() < time_limit: if node.state == state.value: return
\* ... raise TimeoutError
set_node_state_poll ==
    /\ InFrame("set_node_state", "loop")
    /\ IF now < frame.time_limit
       THEN \E s \in ReportedStates :
                frame' = [frame EXCEPT !.seenState = Append(@, s),
                                       !.pc = IF s = frame.state THEN "returned" ELSE "sleep"]
       ELSE frame' = [frame EXCEPT !.pc = "raised", !.exc = "TimeoutError",
                                   !.msg = Message(<<NODE_ID>>, <<frame.state>>)]
    /\ UNCHANGED <<call, prog, pc, result, now, trace, lssVars>>

\* time.sleep(0.1)
PollSleep(fn) ==
    /\ InFrame(fn, "sleep")
    /\ \E outcome \in {"ok", "KeyboardInterrupt"} :
        IF outcome = "ok"
        THEN /\ now' = now + frame.interval
             /\ frame' = [frame EXCEPT !.pc = "loop", !.sleeps = @ + 1]
        ELSE /\ frame' = [frame EXCEPT !.pc = "raised", !.exc = outcome]
             /\ UNCHANGED now
    /\ UNCHANGED <<call, prog, pc, result, trace, lssVars>>

set_node_state_sleep == PollSleep("set_node_state")

----------------------------------------------------------------------------
(* set_node_operation_mode *)

\* node.sdo["Mode of operation"].raw = mode.value ; time_limit = ...
set_node_operation_mode_write ==
    /\ InFrame("set_node_operation_mode", "enter")
    /\ \E outcome \in {"ok", "SdoAbortedError", "KeyboardInterrupt"} :
        IF outcome = "ok"
        THEN /\ trace' = Append(trace, Ev("mode", "Mode of operation", frame.val, TRUE))
             /\ frame' = [frame EXCEPT !.pc = "loop", !.time_limit = now + frame.timeout]
        ELSE /\ frame' = [frame EXCEPT !.pc = "raised", !.exc = outcome]
             /\ UNCHANGED trace
    /\ UNCHANGED <<call, prog, pc, result, now, lssVars>>

\* mutant: the loop polls the mode display (0x6061)
set_node_operation_mode_poll_display ==
    /\ InFrame("set_node_operation_mode", "loop")
    /\ IF now < frame.time_limit
       THEN \E outcome \in {"ok", "SdoAbortedError", "KeyboardInterrupt"} :
                IF outcome = "ok"
                THEN \E m \in ReportedModes :
                        frame' = [frame EXCEPT !.seen = Append(@, m),
                                               !.reg = "Mode of operation display",
                                               !.pc = IF m = frame.val THEN "returned" ELSE "sleep"]
                ELSE frame' = [frame EXCEPT !.pc = "raised", !.exc = outcome]
       ELSE frame' = [frame EXCEPT !.pc = "raised", !.exc = "TimeoutError",
                                   !.msg = Message(<<NODE_ID>>, <<frame.val>>)]
    /\ UNCHANGED <<call, prog, pc, result, now, trace, lssVars>>

\* while time.monotonic() < time_limit:
\*     if node.sdo["Mode of operation"].raw == mode.value: return
set_node_operation_mode_poll ==
    /\ InFrame("set_node_operation_mode", "loop")
    /\ IF now < frame.time_limit
       THEN \E outcome \in {"ok", "SdoAbortedError", "KeyboardInterrupt"} :
                IF outcome = "ok"
                THEN \E m \in ReportedModes :
                        frame' = [frame EXCEPT !.seen = Append(@, m),
                                               !.reg = "Mode of operation",
                                               !.pc = IF m = frame.val THEN "returned" ELSE "sleep"]
                ELSE frame' = [frame EXCEPT !.pc = "raised", !.exc = outcome]
       ELSE frame' = [frame EXCEPT !.pc = "raised", !.exc = "TimeoutError",
                                   !.msg = Message(<<NODE_ID>>, <<frame.val>>)]
    /\ UNCHANGED <<call, prog, pc, result, now, trace, lssVars>>

set_node_operation_mode_sleep == PollSleep("set_node_operation_mode")

----------------------------------------------------------------------------
(* wait_for_statusword_flags *)

\* mutant: any bit of the mask counts as set
flag_match_any(sw, flags, expected_flag_state) ==
    IF expected_flag_state THEN BitAnd(sw, flags) # 0 ELSE BitAnd(sw, flags) = 0

flag_match(sw, flags, expected_flag_state) ==
    IF expected_flag_state THEN BitAnd(sw, flags) = flags ELSE BitAnd(sw, flags) = 0

\* mutant: the deadline leaves the timeout out
wait_for_statusword_flags_enter_no_timeout ==
    /\ InFrame("wait_for_statusword_flags", "enter")
    /\ frame' = [frame EXCEPT !.pc = "loop", !.time_limit = now]
    /\ UNCHANGED <<call, prog, pc, result, now, trace, lssVars>>

\* time_limit = time.monotonic() + timeout
wait_for_statusword_flags_enter ==
    /\ InFrame("wait_for_statusword_flags", "enter")
    /\ frame' = [frame EXCEPT !.pc = "loop", !.time_limit = now + frame.timeout]
    /\ UNCHANGED <<call, prog, pc, result, now, trace, lssVars>>

\* get_statusword(node) returns node.tpdo[1]["Statusword"].raw, the statusword
\* of the last TPDO received and not a read of the device: read right after a
\* controlword write, before any delay, it may still be the statusword the
\* device sent before it processed that write
MayBeStale == frame.unsettled /\ frame.sleeps = 0

\* mutant: the loop sleeps before it tests the statusword it read
wait_for_statusword_flags_poll_sleep_first ==
    /\ InFrame("wait_for_statusword_flags", "loop")
    /\ IF now < frame.time_limit
       THEN /\ Len(frame.seen) < MaxReads
            /\ \E sw \in Statuswords :
                frame' = [frame EXCEPT !.seen = Append(@, sw),
                                       !.sleeps = @ + 1,
                                       !.pc = IF flag_match(sw, frame.val, frame.expected)
                                              THEN "returned" ELSE "loop"]
            /\ now' = now + frame.interval
       ELSE frame' = [frame EXCEPT !.pc = "raised", !.exc = "TimeoutError"] /\ UNCHANGED now
    /\ UNCHANGED <<call, prog, pc, result, trace, lssVars>>

\* while time.monotonic() < time_limit:
\*     statusword = get_statusword(node) ; if flag_match(statusword): return
\* ... raise TimeoutError
wait_for_statusword_flags_poll ==
    /\ InFrame("wait_for_statusword_flags", "loop")
    /\ IF now < frame.time_limit
       THEN /\ Len(frame.seen) < MaxReads
            /\ \E sw \in Statuswords, stale \in BOOLEAN :
                /\ stale => MayBeStale /\ flag_match(sw, frame.val, frame.expected)
                /\ frame' = [frame EXCEPT !.seen = Append(@, sw),
                                          !.stale = stale,
                                          !.pc = IF flag_match(sw, frame.val, frame.expected)
                                                 THEN "returned" ELSE "sleep"]
       ELSE frame' = [frame EXCEPT !.pc = "raised", !.exc = "TimeoutError",
                                   !.msg = Message(<<NODE_ID>>, <<frame.val, frame.expected>>)]
    /\ UNCHANGED <<call, prog, pc, result, now, trace, lssVars>>

\* time.sleep(time_interval)
wait_for_statusword_flags_sleep == PollSleep("wait_for_statusword_flags")

----------------------------------------------------------------------------

DriveNext ==
    \/ start_homing
    \/ start_homing_sequence
    \/ homing_again
    \/ start_homing_src_utils
    \/ start_homing_example_profile_position
    \/ start_send_position_command
    \/ start_position_mode_normal
    \/ start_position_mode_constant_velocity
    \/ start_position_mode_set_of_set_points
    \/ start_position_mode_trajectory
    \/ start_position_loop
    \/ start_position_loop_example_profile_position
    \/ start_configuration_main
    \/ start_error_handler
    \/ start_set_node_state
    \/ start_set_node_operation_mode
    \/ start_wait_for_statusword_flags
    \/ StepCall
    \/ StepSdoWrite
    \/ StepSdoRead
    \/ set_controlword
    \/ StepCwRmw
    \/ set_target_position
    \/ StepSleep
    \/ StepLog
    \/ StepJump
    \/ StepReturn
    \/ StepNmt
    \/ StepLib
    \/ StepRaise
    \/ FrameReturn
    \/ FrameRaise
    \/ set_node_state_write
    \/ set_node_state_poll
    \/ set_node_state_sleep
    \/ set_node_operation_mode_write
    \/ set_node_operation_mode_poll
    \/ set_node_operation_mode_sleep
    \/ wait_for_statusword_flags_enter
    \/ wait_for_statusword_flags_poll
    \/ wait_for_statusword_flags_sleep

----------------------------------------------------------------------------
(* LSS *)

MaxDevices == 2

LSS_UNCONFIGURED_NODE_ID == 255

\* (vendor_id, product_code, revision, serial) of the devices on the bus
Devices == {<<1000, 50, 3, serial>> : serial \in 1..MaxDevices}

FirstNodeIds == {1, 32, 127}
KnownNodeIds == {32, 33}
InquiredNodeIds == KnownNodeIds \cup {LSS_UNCONFIGURED_NODE_ID}

LssCall(op, s, a, d, ok) == [op |-> op, s |-> s, a |-> a, d |-> d, ok |-> ok]

NoLss ==
    [node_id |-> 0, new_node_id |-> 0, identity |-> <<>>, current_id |-> 0,
     inquired |-> FALSE, first_node_id |-> 0, current_node_id |-> 0,
     device |-> <<>>, configured_devices |-> <<>>,
     pend |-> "", retBool |-> FALSE, retCode |-> 0]

\* the record lss_scan_and_configure_nodes builds for a found device
DeviceRecord(device_info, node_id) ==
    [vendor_id |-> device_info[1], product_code |-> device_info[2],
     revision |-> device_info[3], serial_number |-> device_info[4],
     assigned_node_id |-> node_id]

InLss(fn, at) == call = fn /\ result = "running" /\ lpc = at

StartLss(fn, locals, at) ==
    /\ call = "idle"
    /\ lpc = "idle"
    /\ call' = fn
    /\ result' = "running"
    /\ lss' = locals
    /\ lpc' = at
    /\ UNCHANGED <<prog, pc, frame, now, trace, mainVars, lssLog>>

\* leaving a finally block: the pending return or exception takes effect
Leave(pend) == IF pend = "return" THEN "returned" ELSE pend

----------------------------------------------------------------------------
(* lss_unconfigure_all_nodes *)

start_lss_unconfigure_all_nodes ==
    StartLss("lss_unconfigure_all_nodes", NoLss, "switch_configuration")

unconfigure_switch_configuration ==
    /\ InLss("lss_unconfigure_all_nodes", "switch_configuration")
    /\ lssLog' = Append(lssLog, LssCall("send_switch_state_global", "CONFIGURATION", 0, <<>>, TRUE))
    /\ lpc' = "configure"
    /\ UNCHANGED <<call, prog, pc, result, frame, now, trace, mainVars, lss>>

\* mutant: the cleanup is not in a finally block, an LssError returns at once
unconfigure_configure_node_id_no_finally ==
    /\ InLss("lss_unconfigure_all_nodes", "configure")
    /\ \E outcome \in {"ok", "LssError", "CanError", "KeyboardInterrupt"} :
        /\ lssLog' = Append(lssLog,
                LssCall("configure_node_id", outcome, LSS_UNCONFIGURED_NODE_ID, <<>>, outcome = "ok"))
        /\ IF outcome = "ok"
           THEN lpc' = "store" /\ UNCHANGED <<lss, result>>
           ELSE IF outcome = "LssError"
           THEN /\ lpc' = "done"
                /\ result' = "returned"
                /\ lss' = [lss EXCEPT !.pend = "return", !.retBool = FALSE]
           ELSE lpc' = "done" /\ result' = outcome /\ UNCHANGED lss
    /\ UNCHANGED <<call, prog, pc, frame, now, trace, mainVars>>

\* try: network.lss.configure_node_id(LSS_UNCONFIGURED_NODE_ID)
\* except LssError: return False ; finally: ...
unconfigure_configure_node_id ==
    /\ InLss("lss_unconfigure_all_nodes", "configure")
    /\ \E outcome \in {"ok", "LssError", "CanError", "KeyboardInterrupt"} :
        /\ lssLog' = Append(lssLog,
                LssCall("configure_node_id", outcome, LSS_UNCONFIGURED_NODE_ID, <<>>, outcome = "ok"))
        /\ IF outcome = "ok"
           THEN lpc' = "store" /\ UNCHANGED lss
           ELSE IF outcome = "LssError"
           THEN lpc' = "finally" /\ lss' = [lss EXCEPT !.pend = "return", !.retBool = FALSE]
           ELSE lpc' = "finally" /\ lss' = [lss EXCEPT !.pend = outcome]
    /\ UNCHANGED <<call, prog, pc, result, frame, now, trace, mainVars>>

\* mutant: a failed store makes the function return False
unconfigure_store_configuration_fatal ==
    /\ InLss("lss_unconfigure_all_nodes", "store")
    /\ \E outcome \in {"ok", "LssError", "CanError", "KeyboardInterrupt"} :
        /\ lssLog' = Append(lssLog,
                LssCall("store_configuration", outcome, 0, <<>>, outcome = "ok"))
        /\ IF outcome = "KeyboardInterrupt"
           THEN lss' = [lss EXCEPT !.pend = outcome]
           ELSE lss' = [lss EXCEPT !.pend = "return", !.retBool = (outcome = "ok")]
    /\ lpc' = "finally"
    /\ UNCHANGED <<call, prog, pc, result, frame, now, trace, mainVars>>

\* try: network.lss.store_configuration() except Exception: log.warning(...)
\* return True
unconfigure_store_configuration ==
    /\ InLss("lss_unconfigure_all_nodes", "store")
    /\ \E outcome \in {"ok", "LssError", "CanError", "KeyboardInterrupt"} :
        /\ lssLog' = Append(lssLog,
                LssCall("store_configuration", outcome, 0, <<>>, outcome = "ok"))
        /\ IF outcome = "KeyboardInterrupt"
           THEN lss' = [lss EXCEPT !.pend = outcome]
           ELSE lss' = [lss EXCEPT !.pend = "return", !.retBool = TRUE]
    /\ lpc' = "finally"
    /\ UNCHANGED <<call, prog, pc, result, frame, now, trace, mainVars>>

\* finally: network.lss.send_switch_state_global(network.lss.WAITING_STATE)
\*          network.nmt.state = 'RESET COMMUNICATION'
unconfigure_finally ==
    /\ InLss("lss_unconfigure_all_nodes", "finally")
    /\ lssLog' = lssLog \o
            << LssCall("send_switch_state_global", "WAITING", 0, <<>>, TRUE),
               LssCall("nmt", "RESET COMMUNICATION", 0, <<>>, TRUE) >>
    /\ lpc' = "sleep"
    /\ UNCHANGED <<call, prog, pc, result, frame, now, trace, mainVars, lss>>

\*          time.sleep(LSS_RESET_DELAY)
unconfigure_sleep ==
    /\ InLss("lss_unconfigure_all_nodes", "sleep")
    /\ \E outcome \in {"ok", "KeyboardInterrupt"} :
        result' = IF outcome = "ok" THEN Leave(lss.pend) ELSE outcome
    /\ lpc' = "done"
    /\ UNCHANGED <<call, prog, pc, frame, now, trace, mainVars, lss, lssLog>>

----------------------------------------------------------------------------
(* lss_scan_and_configure_nodes *)

start_lss_scan_and_configure_nodes ==
    \E first_node_id \in FirstNodeIds :
        StartLss("lss_scan_and_configure_nodes",
                 [NoLss EXCEPT !.first_node_id = first_node_id,
                               !.current_node_id = first_node_id],
                 "switch_waiting")

\* while True: network.lss.send_switch_state_global(network.lss.WAITING_STATE)
scan_switch_waiting ==
    /\ InLss("lss_scan_and_configure_nodes", "switch_waiting")
    /\ lssLog' = Append(lssLog, LssCall("send_switch_state_global", "WAITING", 0, <<>>, TRUE))
    /\ lpc' = "sleep"
    /\ UNCHANGED <<call, prog, pc, result, frame, now, trace, mainVars, lss>>

\* time.sleep(LSS_SCAN_DELAY)
scan_sleep ==
    /\ InLss("lss_scan_and_configure_nodes", "sleep")
    /\ \E outcome \in {"ok", "KeyboardInterrupt"} :
        IF outcome = "ok"
        THEN lpc' = "fast_scan" /\ UNCHANGED result
        ELSE lpc' = "done" /\ result' = outcome
    /\ UNCHANGED <<call, prog, pc, frame, now, trace, mainVars, lss, lssLog>>

Found(log) == SelectSeq(log, LAMBDA c : c.op = "fast_scan" /\ c.ok /\ c.d # <<>>)

\* try: found, device_info = network.lss.fast_scan()
\*      if not found: break
\*      device = {...}
\* except Exception: break
scan_fast_scan ==
    /\ InLss("lss_scan_and_configure_nodes", "fast_scan")
    /\ \/ \E device_info \in Devices :
            /\ Len(Found(lssLog)) < MaxDevices
            /\ lssLog' = Append(lssLog, LssCall("fast_scan", "found", 0, device_info, TRUE))
            /\ lss' = [lss EXCEPT !.device = DeviceRecord(device_info, lss.current_node_id)]
            /\ lpc' = "configure"
            /\ UNCHANGED result
       \/ /\ lssLog' = Append(lssLog, LssCall("fast_scan", "not found", 0, <<>>, TRUE))
          /\ lpc' = "return"
          /\ UNCHANGED <<lss, result>>
       \/ \E outcome \in {"LssError", "KeyboardInterrupt"} :
            /\ lssLog' = Append(lssLog, LssCall("fast_scan", outcome, 0, <<>>, FALSE))
            /\ IF outcome = "KeyboardInterrupt"
               THEN lpc' = "done" /\ result' = outcome
               ELSE lpc' = "return" /\ UNCHANGED result
            /\ UNCHANGED lss
    /\ UNCHANGED <<call, prog, pc, frame, now, trace, mainVars>>

\*      network.lss.configure_node_id(current_node_id)
scan_configure_node_id ==
    /\ InLss("lss_scan_and_configure_nodes", "configure")
    /\ \E outcome \in {"ok", "LssError", "KeyboardInterrupt"} :
        /\ lssLog' = Append(lssLog,
                LssCall("configure_node_id", outcome, lss.current_node_id, <<>>, outcome = "ok"))
        /\ IF outcome = "ok"
           THEN lpc' = "store" /\ UNCHANGED result
           ELSE IF outcome = "KeyboardInterrupt"
           THEN lpc' = "done" /\ result' = outcome
           ELSE lpc' = "return" /\ UNCHANGED result
    /\ UNCHANGED <<call, prog, pc, frame, now, trace, mainVars, lss>>

\* mutant: the id counter is not incremented
scan_store_configuration_no_increment ==
    /\ InLss("lss_scan_and_configure_nodes", "store")
    /\ \E outcome \in {"ok", "LssError", "KeyboardInterrupt"} :
        /\ lssLog' = Append(lssLog,
                LssCall("store_configuration", outcome, 0, <<>>, outcome = "ok"))
        /\ IF outcome = "ok"
           THEN /\ lss' = [lss EXCEPT !.configured_devices = Append(@, lss.device)]
                /\ lpc' = "switch_waiting"
                /\ UNCHANGED result
           ELSE IF outcome = "KeyboardInterrupt"
           THEN lpc' = "done" /\ result' = outcome /\ UNCHANGED lss
           ELSE lpc' = "return" /\ UNCHANGED <<result, lss>>
    /\ UNCHANGED <<call, prog, pc, frame, now, trace, mainVars>>

\*      network.lss.store_configuration()
\*      configured_devices.append(device) ; current_node_id += 1
scan_store_configuration ==
    /\ InLss("lss_scan_and_configure_nodes", "store")
    /\ \E outcome \in {"ok", "LssError", "KeyboardInterrupt"} :
        /\ lssLog' = Append(lssLog,
                LssCall("store_configuration", outcome, 0, <<>>, outcome = "ok"))
        /\ IF outcome = "ok"
           THEN /\ lss' = [lss EXCEPT !.configured_devices = Append(@, lss.device),
                                      !.current_node_id = @ + 1]
                /\ lpc' = "switch_waiting"
                /\ UNCHANGED result
           ELSE IF outcome = "KeyboardInterrupt"
           THEN lpc' = "done" /\ result' = outcome /\ UNCHANGED lss
           ELSE lpc' = "return" /\ UNCHANGED <<result, lss>>
    /\ UNCHANGED <<call, prog, pc, frame, now, trace, mainVars>>

\* return configured_devices
scan_return ==
    /\ InLss("lss_scan_and_configure_nodes", "return")
    /\ result' = "returned"
    /\ lpc' = "done"
    /\ UNCHANGED <<call, prog, pc, frame, now, trace, mainVars, lss, lssLog>>

----------------------------------------------------------------------------
(* lss_configure_single_node_id *)

start_lss_configure_single_node_id ==
    \E node_id \in KnownNodeIds, new_node_id \in KnownNodeIds :
        StartLss("lss_configure_single_node_id",
                 [NoLss EXCEPT !.node_id = node_id, !.new_node_id = new_node_id],
                 "read_identity")

Return2(outcome) ==
    IF outcome = "KeyboardInterrupt"
    THEN result' = outcome /\ UNCHANGED lss
    ELSE result' = "returned" /\ lss' = [lss EXCEPT !.retCode = 2]

\* try: vid, pid, rev, ser = lss_read_identity_via_sdo(node)
\* except Exception: return 2
single_read_identity ==
    /\ InLss("lss_configure_single_node_id", "read_identity")
    /\ \E outcome \in {"ok", "SdoAbortedError", "KeyboardInterrupt"} :
        IF outcome = "ok"
        THEN /\ \E identity \in Devices : lss' = [lss EXCEPT !.identity = identity]
             /\ lpc' = "switch_waiting"
             /\ UNCHANGED result
        ELSE lpc' = "done" /\ Return2(outcome)
    /\ UNCHANGED <<call, prog, pc, frame, now, trace, mainVars, lssLog>>

\* try: network.lss.send_switch_state_global(waiting=True)
\* except Exception: log.warning(...)
single_switch_waiting ==
    /\ InLss("lss_configure_single_node_id", "switch_waiting")
    /\ \E ok \in BOOLEAN :
        lssLog' = Append(lssLog, LssCall("send_switch_state_global", "WAITING", 0, <<>>, ok))
    /\ lpc' = "selective"
    /\ UNCHANGED <<call, prog, pc, result, frame, now, trace, mainVars, lss>>

\* try: network.lss.send_switch_state_selective(vid, pid, rev, ser)
\* except Exception: return 2
single_switch_selective ==
    /\ InLss("lss_configure_single_node_id", "selective")
    /\ \E outcome \in {"ok", "LssError", "KeyboardInterrupt"} :
        /\ lssLog' = Append(lssLog,
                LssCall("send_switch_state_selective", outcome, 0, lss.identity, outcome = "ok"))
        /\ IF outcome = "ok"
           THEN lpc' = "inquire" /\ UNCHANGED <<result, lss>>
           ELSE lpc' = "done" /\ Return2(outcome)
    /\ UNCHANGED <<call, prog, pc, frame, now, trace, mainVars>>

\* try: current_id = network.lss.inquire_node_id()
\* except Exception: return 2
single_inquire_node_id ==
    /\ InLss("lss_configure_single_node_id", "inquire")
    /\ \E outcome \in {"ok", "LssError", "KeyboardInterrupt"} :
        IF outcome = "ok"
        THEN /\ \E current_id \in InquiredNodeIds :
                /\ lss' = [lss EXCEPT !.current_id = current_id, !.inquired = TRUE]
                /\ lssLog' = Append(lssLog, LssCall("inquire_node_id", outcome, current_id, <<>>, TRUE))
             /\ lpc' = "gate"
             /\ UNCHANGED result
        ELSE /\ lssLog' = Append(lssLog, LssCall("inquire_node_id", outcome, 0, <<>>, FALSE))
             /\ lpc' = "done"
             /\ Return2(outcome)
    /\ UNCHANGED <<call, prog, pc, frame, now, trace, mainVars>>

\* mutant: the gate compares with the new id instead of the expected one
single_safety_gate_new_id ==
    /\ InLss("lss_configure_single_node_id", "gate")
    /\ IF lss.current_id # lss.new_node_id
       THEN lpc' = "done" /\ result' = "returned" /\ lss' = [lss EXCEPT !.retCode = 3]
       ELSE lpc' = "configure" /\ UNCHANGED <<result, lss>>
    /\ UNCHANGED <<call, prog, pc, frame, now, trace, mainVars, lssLog>>

\* if current_id != node_id: return 3
single_safety_gate ==
    /\ InLss("lss_configure_single_node_id", "gate")
    /\ IF lss.current_id # lss.node_id
       THEN lpc' = "done" /\ result' = "returned" /\ lss' = [lss EXCEPT !.retCode = 3]
       ELSE lpc' = "configure" /\ UNCHANGED <<result, lss>>
    /\ UNCHANGED <<call, prog, pc, frame, now, trace, mainVars, lssLog>>

\* try: network.lss.configure_node_id(new_node_id)
\* except Exception: return 1 ; finally: ...
single_configure_node_id ==
    /\ InLss("lss_configure_single_node_id", "configure")
    /\ \E outcome \in {"ok", "LssError", "KeyboardInterrupt"} :
        /\ lssLog' = Append(lssLog,
                LssCall("configure_node_id", outcome, lss.new_node_id, <<>>, outcome = "ok"))
        /\ IF outcome = "ok"
           THEN lpc' = "store" /\ UNCHANGED lss
           ELSE IF outcome = "KeyboardInterrupt"
           THEN lpc' = "finally" /\ lss' = [lss EXCEPT !.pend = outcome]
           ELSE lpc' = "finally" /\ lss' = [lss EXCEPT !.pend = "return", !.retCode = 1]
    /\ UNCHANGED <<call, prog, pc, result, frame, now, trace, mainVars>>

\* mutant: a failed store returns the code of an unreachable device
single_store_configuration_code_2 ==
    /\ InLss("lss_configure_single_node_id", "store")
    /\ \E outcome \in {"ok", "LssError", "KeyboardInterrupt"} :
        /\ lssLog' = Append(lssLog,
                LssCall("store_configuration", outcome, 0, <<>>, outcome = "ok"))
        /\ IF outcome = "ok"
           THEN lss' = [lss EXCEPT !.pend = "continue"]
           ELSE IF outcome = "KeyboardInterrupt"
           THEN lss' = [lss EXCEPT !.pend = outcome]
           ELSE lss' = [lss EXCEPT !.pend = "return", !.retCode = 2]
    /\ lpc' = "finally"
    /\ UNCHANGED <<call, prog, pc, result, frame, now, trace, mainVars>>

\*      network.lss.store_configuration()
single_store_configuration ==
    /\ InLss("lss_configure_single_node_id", "store")
    /\ \E outcome \in {"ok", "LssError", "KeyboardInterrupt"} :
        /\ lssLog' = Append(lssLog,
                LssCall("store_configuration", outcome, 0, <<>>, outcome = "ok"))
        /\ IF outcome = "ok"
           THEN lss' = [lss EXCEPT !.pend = "continue"]
           ELSE IF outcome = "KeyboardInterrupt"
           THEN lss' = [lss EXCEPT !.pend = outcome]
           ELSE lss' = [lss EXCEPT !.pend = "return", !.retCode = 1]
    /\ lpc' = "finally"
    /\ UNCHANGED <<call, prog, pc, result, frame, now, trace, mainVars>>

\* mutant: the finally block also resets the nodes
single_finally_with_reset ==
    /\ InLss("lss_configure_single_node_id", "finally")
    /\ \E ok \in BOOLEAN :
        lssLog' = lssLog \o
            << LssCall("send_switch_state_global", "WAITING", 0, <<>>, ok),
               LssCall("nmt", "RESET", 0, <<>>, ok) >>
    /\ IF lss.pend = "continue"
       THEN lpc' = "nmt_reset" /\ UNCHANGED result
       ELSE lpc' = "done" /\ result' = Leave(lss.pend)
    /\ UNCHANGED <<call, prog, pc, frame, now, trace, mainVars, lss>>

\* finally: try: network.lss.send_switch_state_global(waiting=True)
\*          except Exception: pass
single_finally ==
    /\ InLss("lss_configure_single_node_id", "finally")
    /\ \E ok \in BOOLEAN :
        lssLog' = Append(lssLog, LssCall("send_switch_state_global", "WAITING", 0, <<>>, ok))
    /\ IF lss.pend = "continue"
       THEN lpc' = "nmt_reset" /\ UNCHANGED result
       ELSE lpc' = "done" /\ result' = Leave(lss.pend)
    /\ UNCHANGED <<call, prog, pc, frame, now, trace, mainVars, lss>>

\* try: network.nmt.state = "RESET"
\* except Exception: log.warning(...)
single_nmt_reset ==
    /\ InLss("lss_configure_single_node_id", "nmt_reset")
    /\ \E ok \in BOOLEAN :
        lssLog' = Append(lssLog, LssCall("nmt", "RESET", 0, <<>>, ok))
    /\ lpc' = "sleep"
    /\ UNCHANGED <<call, prog, pc, result, frame, now, trace, mainVars, lss>>

\* time.sleep(LSS_RESET_DELAY) ; return 0
single_sleep ==
    /\ InLss("lss_configure_single_node_id", "sleep")
    /\ \E outcome \in {"ok", "KeyboardInterrupt"} :
        IF outcome = "ok"
        THEN result' = "returned" /\ lss' = [lss EXCEPT !.retCode = 0]
        ELSE result' = outcome /\ UNCHANGED lss
    /\ lpc' = "done"
    /\ UNCHANGED <<call, prog, pc, frame, now, trace, mainVars, lssLog>>

----------------------------------------------------------------------------

LssNext ==
    \/ start_lss_unconfigure_all_nodes
    \/ unconfigure_switch_configuration
    \/ unconfigure_configure_node_id
    \/ unconfigure_store_configuration
    \/ unconfigure_finally
    \/ unconfigure_sleep
    \/ start_lss_scan_and_configure_nodes
    \/ scan_switch_waiting
    \/ scan_sleep
    \/ scan_fast_scan
    \/ scan_configure_node_id
    \/ scan_store_configuration
    \/ scan_return
    \/ start_lss_configure_single_node_id
    \/ single_read_identity
    \/ single_switch_waiting
    \/ single_switch_selective
    \/ single_inquire_node_id
    \/ single_safety_gate
    \/ single_configure_node_id
    \/ single_store_configuration
    \/ single_finally
    \/ single_nmt_reset
    \/ single_sleep

----------------------------------------------------------------------------
(* The example scripts: main() and its connection to the CAN bus *)

Scripts == {"homing.py", "mode_pp_set_of_set_points.py", "change_node_id_all.py"}

\* scripts whose main() wraps the session in try ... finally: if network: disconnect()
WithFinally == {"homing.py", "change_node_id_all.py"}

START_NODE_ID == 32

NoSession ==
    [script |-> "", pc |-> "idle",
     \* main's variable network (None or the Network object) and the nodes added to it
     network |-> "None", nodes |-> 0,
     \* network.connect() has opened the bus; calls of network.disconnect()
     connected |-> FALSE, disconnects |-> 0,
     \* the exception main() caught
     raised |-> "",
     configured_nodes |-> 0, devices |-> <<>>, current_node_id |-> 0,
     \* mode_pp_set_of_set_points.py: on_position_update is in tpdo.callbacks; the
     \* module's csvfile; where the receive thread is; a writerow on the closed file
     callbacks |-> FALSE, csv |-> "none", rx |-> "idle", late |-> FALSE,
     \* what main() returned and the exit code of the process
     retval |-> "unset", exit |-> -1]

InMain(scripts, at) == session.script \in scripts /\ session.pc = at

\* `if network:` - a canopen Network is a mapping of its nodes, so the
\* object is true only once a node has been added to it
Truthy(network, nodes) == network # "None" /\ nodes > 0

\* except KeyboardInterrupt / except Exception of main(): the drive scripts
\* log and fall through, change_node_id_all returns 130 or 1
Caught(s, exc) ==
    [s EXCEPT !.raised = exc,
              !.retval = IF s.script # "change_node_id_all.py" THEN "None"
                         ELSE IF exc = "KeyboardInterrupt" THEN "130" ELSE "1",
              !.pc = IF s.script \in WithFinally THEN "finally" ELSE "exit"]

(* The devices, as LSS slaves (CiA 305): the active node id, the pending one *)
(* that the next reset communication activates, the stored one that a reset *)
(* node reloads, and the LSS mode.                                          *)

InitialNodeIds == {32, 33, LSS_UNCONFIGURED_NODE_ID}

Slave(id) == [id |-> id, pending |-> id, stored |-> id, mode |-> "waiting"]

\* switch state global; a slave that leaves configuration with a valid
\* pending id while its active id is invalid starts up with the pending id
SwitchStateGlobal(b, mode) ==
    [d \in DOMAIN b |->
        [b[d] EXCEPT !.mode = mode,
                     !.id = IF /\ mode = "waiting"
                               /\ b[d].id = LSS_UNCONFIGURED_NODE_ID
                               /\ b[d].pending # LSS_UNCONFIGURED_NODE_ID
                            THEN b[d].pending ELSE @]]

\* configure node id / store configuration act on the slaves in configuration mode
ConfigureNodeId(b, id) ==
    [d \in DOMAIN b |-> IF b[d].mode = "configuration" THEN [b[d] EXCEPT !.pending = id] ELSE b[d]]

StoreConfiguration(b) ==
    [d \in DOMAIN b |-> IF b[d].mode = "configuration" THEN [b[d] EXCEPT !.stored = b[d].pending] ELSE b[d]]

\* NMT reset communication: the pending id becomes the active one
ResetCommunication(b) ==
    [d \in DOMAIN b |-> [b[d] EXCEPT !.id = b[d].pending]]

\* NMT reset node: the slave restarts from its stored configuration
ResetNode(b) ==
    [d \in DOMAIN b |-> Slave(b[d].stored)]

\* fast scan addresses the slaves without a valid node id
Unconfigured(b) == {d \in DOMAIN b : b[d].id = LSS_UNCONFIGURED_NODE_ID}

Select(b, d) == [b EXCEPT ![d].mode = "configuration"]

----------------------------------------------------------------------------
(* main() of homing.py and of mode_pp_set_of_set_points.py *)

start_main ==
    /\ session.pc = "idle"
    /\ \E script \in Scripts \ {"change_node_id_all.py"} :
        session' = [NoSession EXCEPT !.script = script, !.pc = "setup_network",
                                     !.csv = IF script = "mode_pp_set_of_set_points.py"
                                             THEN "open" ELSE "none"]
    /\ UNCHANGED <<driveVars, lpc, lss, lssLog, bus>>

\* network, absolute_path = setup_network():
\*     raise FileNotFoundError ; network = Network() ; network.connect(...) ;
\*     network.check() ; return network, eds_path
main_setup_network ==
    /\ InMain(Scripts, "setup_network")
    /\ \E outcome \in {"FileNotFoundError", "connect", "check", "ok"} :
        session' =
            CASE outcome \in {"FileNotFoundError", "connect"} -> Caught(session, "Exception")
              [] outcome = "check" -> Caught([session EXCEPT !.connected = TRUE], "Exception")
              [] outcome = "ok" -> [session EXCEPT !.connected = TRUE, !.network = "Network",
                                                   !.pc = "check"]
    /\ UNCHANGED <<driveVars, lpc, lss, lssLog, bus>>

\* network.check()
main_check ==
    /\ InMain(Scripts, "check")
    /\ \E outcome \in {"ok", "Exception"} :
        session' = IF outcome = "ok" THEN [session EXCEPT !.pc = "add_node"]
                   ELSE Caught(session, outcome)
    /\ UNCHANGED <<driveVars, lpc, lss, lssLog, bus>>

\* node = BaseNode402(NODE_ID, absolute_path) ; network.add_node(node)
main_add_node ==
    /\ InMain(Scripts, "add_node")
    /\ session' = [session EXCEPT !.nodes = @ + 1, !.pc = "configure_node"]
    /\ UNCHANGED <<driveVars, lpc, lss, lssLog, bus>>

\* configure_node(node)
main_configure_node ==
    /\ InMain(Scripts, "configure_node")
    /\ \E outcome \in {"ok", "Exception", "KeyboardInterrupt"} :
        session' = IF outcome = "ok" THEN [session EXCEPT !.pc = "sequencers"]
                   ELSE Caught(session, outcome)
    /\ UNCHANGED <<driveVars, lpc, lss, lssLog, bus>>

\* time.sleep(...) ; homing(node) ; time.sleep(...): they return, raise or are
\* interrupted (Part 1), and leave the connection alone
main_sequencers ==
    /\ InMain(Scripts, "sequencers")
    /\ \E outcome \in {"ok", "Exception", "KeyboardInterrupt"} :
        session' = IF outcome = "ok"
                   THEN [session EXCEPT !.pc = IF session.script = "homing.py"
                                                THEN "disconnect" ELSE "add_callback"]
                   ELSE Caught(session, outcome)
    /\ UNCHANGED <<driveVars, lpc, lss, lssLog, bus>>

\* mode_pp_set_of_set_points.py: tpdo.add_callback(on_position_update)
main_add_callback ==
    /\ InMain({"mode_pp_set_of_set_points.py"}, "add_callback")
    /\ session' = [session EXCEPT !.callbacks = TRUE, !.pc = "position_mode"]
    /\ UNCHANGED <<driveVars, lpc, lss, lssLog, bus>>

\* position_mode_trajectory(node) (or the sequencer of another example) ; time.sleep(0.5)
main_position_mode ==
    /\ InMain({"mode_pp_set_of_set_points.py"}, "position_mode")
    /\ \E outcome \in {"ok", "Exception", "KeyboardInterrupt"} :
        session' = IF outcome = "ok" THEN [session EXCEPT !.pc = "clear_callbacks"]
                   ELSE Caught(session, outcome)
    /\ UNCHANGED <<driveVars, lpc, lss, lssLog, bus>>

\* tpdo.callbacks.clear()
main_clear_callbacks ==
    /\ InMain({"mode_pp_set_of_set_points.py"}, "clear_callbacks")
    /\ session' = [session EXCEPT !.callbacks = FALSE, !.pc = "close"]
    /\ UNCHANGED <<driveVars, lpc, lss, lssLog, bus>>

\* csvfile.close() ; view_csv()
main_close ==
    /\ InMain({"mode_pp_set_of_set_points.py"}, "close")
    /\ \E outcome \in {"ok", "Exception", "KeyboardInterrupt"} :
        session' = IF outcome = "ok" THEN [session EXCEPT !.csv = "closed", !.pc = "exit"]
                   ELSE Caught([session EXCEPT !.csv = "closed"], outcome)
    /\ UNCHANGED <<driveVars, lpc, lss, lssLog, bus>>

\* The receive thread of the network, while main() runs: a TPDO3 arrives and
\* the callbacks registered at that moment are called
rx_receive ==
    /\ session.script = "mode_pp_set_of_set_points.py"
    /\ session.pc \notin {"idle", "exited"}
    /\ session.connected
    /\ session.rx = "idle"
    /\ session.callbacks
    /\ session' = [session EXCEPT !.rx = "on_position_update"]
    /\ UNCHANGED <<driveVars, lpc, lss, lssLog, bus>>

\* on_position_update(pdo): writer.writerow([...]); on a closed file it raises
\* ValueError in the receive thread
rx_writerow ==
    /\ session.script = "mode_pp_set_of_set_points.py"
    /\ session.pc \notin {"idle", "exited"}
    /\ session.rx = "on_position_update"
    /\ session' = IF session.csv = "open"
                  THEN [session EXCEPT !.rx = "idle"]
                  ELSE [session EXCEPT !.rx = "ValueError", !.late = TRUE]
    /\ UNCHANGED <<driveVars, lpc, lss, lssLog, bus>>

\* homing.py: network.disconnect() as the last statement of the try block
main_disconnect ==
    /\ InMain({"homing.py"}, "disconnect")
    /\ session' = [session EXCEPT !.disconnects = @ + 1, !.pc = "finally"]
    /\ UNCHANGED <<driveVars, lpc, lss, lssLog, bus>>

\* finally: if network: network.disconnect()
main_finally ==
    /\ InMain(WithFinally, "finally")
    /\ session' = [session EXCEPT
            !.disconnects = IF Truthy(session.network, session.nodes) THEN @ + 1 ELSE @,
            !.pc = "exit"]
    /\ UNCHANGED <<driveVars, lpc, lss, lssLog, bus>>

\* if __name__ == "__main__": main() ; sys.exit(0)
main_exit ==
    /\ InMain(Scripts, "exit")
    /\ session' = [session EXCEPT !.exit = 0, !.pc = "exited"]
    /\ UNCHANGED <<driveVars, lpc, lss, lssLog, bus>>

----------------------------------------------------------------------------
(* main() of change_node_id_all.py *)

start_change_node_id_all ==
    /\ session.pc = "idle"
    /\ session' = [NoSession EXCEPT !.script = "change_node_id_all.py", !.pc = "connect"]
    /\ \E ids \in [1..MaxDevices -> InitialNodeIds] :
        bus' = [d \in 1..MaxDevices |-> Slave(ids[d])]
    /\ UNCHANGED <<driveVars, lpc, lss, lssLog>>

\* network = Network() ; network.connect(...)
all_connect ==
    /\ InMain({"change_node_id_all.py"}, "connect")
    /\ \E outcome \in {"ok", "Exception"} :
        session' = IF outcome = "ok"
                   THEN [session EXCEPT !.network = "Network", !.connected = TRUE,
                                        !.pc = "check_configured_nodes"]
                   ELSE Caught([session EXCEPT !.network = "Network"], outcome)
    /\ UNCHANGED <<driveVars, lpc, lss, lssLog, bus>>

\* configured_nodes = lss_check_configured_nodes(network):
\*     switch to configuration ; try: devices = inquire_node_id() ; return devices or []
\*     except LssError: return [] ; finally: switch to waiting
all_check_configured_nodes ==
    /\ InMain({"change_node_id_all.py"}, "check_configured_nodes")
    /\ bus' = SwitchStateGlobal(SwitchStateGlobal(bus, "configuration"), "waiting")
    /\ \E outcome \in {"ok", "LssError", "KeyboardInterrupt"} :
        CASE outcome = "ok" ->
                \E d \in DOMAIN bus :
                    session' = [session EXCEPT !.configured_nodes = bus[d].id,
                                               !.pc = "unconfigure_all_nodes"]
          [] outcome = "LssError" ->
                session' = [session EXCEPT !.configured_nodes = 0,
                                           !.pc = "scan_and_configure_nodes"]
          [] outcome = "KeyboardInterrupt" ->
                session' = Caught(session, outcome)
    /\ UNCHANGED <<driveVars, lpc, lss, lssLog>>

\* if configured_nodes: lss_unconfigure_all_nodes(network), its result unused:
\*     switch to configuration
\*     try: configure_node_id(0xFF) ; try: store_configuration() except Exception: warn
\*          return True
\*     except LssError: return False
\*     finally: switch to waiting ; nmt.state = 'RESET COMMUNICATION' ; time.sleep(...)
all_unconfigure_all_nodes ==
    /\ InMain({"change_node_id_all.py"}, "unconfigure_all_nodes")
    /\ \E configure \in {"ok", "LssError"}, store \in {"ok", "Exception"},
          sleep \in {"ok", "KeyboardInterrupt"} :
        LET selected == SwitchStateGlobal(bus, "configuration")
            configured == IF configure = "ok"
                          THEN ConfigureNodeId(selected, LSS_UNCONFIGURED_NODE_ID)
                          ELSE selected
            stored == IF configure = "ok" /\ store = "ok"
                      THEN StoreConfiguration(configured)
                      ELSE configured
        IN /\ configure = "LssError" => store = "ok"
           /\ bus' = ResetCommunication(SwitchStateGlobal(stored, "waiting"))
           /\ session' = IF sleep = "ok"
                         THEN [session EXCEPT !.pc = "scan_and_configure_nodes"]
                         ELSE Caught(session, sleep)
    /\ UNCHANGED <<driveVars, lpc, lss, lssLog>>

\* mutant: the loop goes on after a not-found result or an error
all_scan_and_configure_nodes_continue ==
    /\ InMain({"change_node_id_all.py"}, "scan_and_configure_nodes")
    /\ LET waiting == SwitchStateGlobal(bus, "waiting")
           current_node_id == START_NODE_ID + Len(session.devices)
           break == session
       IN \E outcome \in {"assigned", "not found", "fast_scan", "configure_node_id",
                         "store_configuration", "KeyboardInterrupt"} :
            CASE outcome = "KeyboardInterrupt" ->
                    bus' = waiting /\ session' = Caught(session, outcome)
              [] outcome = "not found" ->
                    Unconfigured(waiting) = {} /\ bus' = waiting /\ session' = break
              [] outcome = "fast_scan" ->
                    bus' = waiting /\ session' = break
              [] outcome \in {"assigned", "configure_node_id", "store_configuration"} ->
                    \E d \in Unconfigured(waiting) :
                        LET selected == Select(waiting, d)
                            configured == ConfigureNodeId(selected, current_node_id)
                        IN CASE outcome = "configure_node_id" ->
                                    bus' = selected /\ session' = break
                             [] outcome = "store_configuration" ->
                                    bus' = configured /\ session' = break
                             [] outcome = "assigned" ->
                                    /\ bus' = StoreConfiguration(configured)
                                    /\ session' = [session EXCEPT
                                            !.devices = Append(@, current_node_id),
                                            !.current_node_id = current_node_id + 1]
    /\ UNCHANGED <<driveVars, lpc, lss, lssLog>>

\* devices = lss_scan_and_configure_nodes(network, START_NODE_ID), one pass of
\* its loop:
\*     switch to waiting ; time.sleep(LSS_SCAN_DELAY)
\*     try: found, device_info = fast_scan() ; if not found: break
\*          configure_node_id(current_node_id) ; store_configuration()
\*          configured_devices.append(device) ; current_node_id += 1
\*     except Exception: break
all_scan_and_configure_nodes ==
    /\ InMain({"change_node_id_all.py"}, "scan_and_configure_nodes")
    /\ LET waiting == SwitchStateGlobal(bus, "waiting")
           current_node_id == START_NODE_ID + Len(session.devices)
           break == [session EXCEPT !.pc = "reset"]
       IN \E outcome \in {"assigned", "not found", "fast_scan", "configure_node_id",
                         "store_configuration", "KeyboardInterrupt"} :
            CASE outcome = "KeyboardInterrupt" ->
                    bus' = waiting /\ session' = Caught(session, outcome)
              [] outcome = "not found" ->
                    Unconfigured(waiting) = {} /\ bus' = waiting /\ session' = break
              [] outcome = "fast_scan" ->
                    bus' = waiting /\ session' = break
              [] outcome \in {"assigned", "configure_node_id", "store_configuration"} ->
                    \E d \in Unconfigured(waiting) :
                        LET selected == Select(waiting, d)
                            configured == ConfigureNodeId(selected, current_node_id)
                        IN CASE outcome = "configure_node_id" ->
                                    bus' = selected /\ session' = break
                             [] outcome = "store_configuration" ->
                                    bus' = configured /\ session' = break
                             [] outcome = "assigned" ->
                                    /\ bus' = StoreConfiguration(configured)
                                    /\ session' = [session EXCEPT
                                            !.devices = Append(@, current_node_id),
                                            !.current_node_id = current_node_id + 1]
    /\ UNCHANGED <<driveVars, lpc, lss, lssLog>>

\* if devices: network.nmt.state = 'RESET' ; time.sleep(LSS_RESET_DELAY)
\* if not devices: return
\* ... return 0
all_reset ==
    /\ InMain({"change_node_id_all.py"}, "reset")
    /\ \E sleep \in {"ok", "KeyboardInterrupt"} :
        IF session.devices = <<>>
        THEN /\ sleep = "ok"
             /\ session' = [session EXCEPT !.retval = "None", !.pc = "finally"]
             /\ UNCHANGED bus
        ELSE /\ bus' = ResetNode(bus)
             /\ session' = IF sleep = "ok"
                           THEN [session EXCEPT !.retval = "0", !.pc = "finally"]
                           ELSE Caught(session, sleep)
    /\ UNCHANGED <<driveVars, lpc, lss, lssLog>>

----------------------------------------------------------------------------

MainNext ==
    \/ start_main
    \/ main_setup_network
    \/ main_check
    \/ main_add_node
    \/ main_configure_node
    \/ main_sequencers
    \/ main_add_callback
    \/ main_position_mode
    \/ main_clear_callbacks
    \/ main_close
    \/ rx_receive
    \/ rx_writerow
    \/ main_disconnect
    \/ main_finally
    \/ main_exit
    \/ start_change_node_id_all
    \/ all_connect
    \/ all_check_configured_nodes
    \/ all_unconfigure_all_nodes
    \/ all_scan_and_configure_nodes
    \/ all_reset

----------------------------------------------------------------------------
(* Specifications *)

Init ==
    /\ call = "idle"
    /\ prog = <<>>
    /\ pc = 0
    /\ result = "none"
    /\ frame = NoFrame
    /\ now = 0
    /\ trace = <<>>
    /\ lpc = "idle"
    /\ lss = NoLss
    /\ lssLog = <<>>
    /\ session = NoSession
    /\ bus = <<>>

Spec == Init /\ [][DriveNext]_vars

SpecLss == Init /\ [][LssNext]_vars

SpecMain == Init /\ [][MainNext]_vars

----------------------------------------------------------------------------
(* Properties *)

Ended == result \notin {"none", "running"}
CwWrites(t) == SelectSeq(t, IsCw)
Bit4(cw) == BitAnd(cw, BIT(4)) # 0
HomingCalls == {"homing", "homing_example_profile_position"}

\* C1: in homing(), on every exit after the start-homing controlword (bit 4
\* set) was written - attained, wait timeout, any other failure or an
\* interruption - the last controlword written has bit 4 clear.
C1_LastControlwordBit4Clear ==
    (call \in HomingCalls /\ Ended /\ \E i \in 1..Len(trace) : IsCw(trace[i]) /\ Bit4(trace[i].v))
        => ~Bit4(CwWrites(trace)[Len(CwWrites(trace))].v)

Mutating(c) == c.op \in {"configure_node_id", "store_configuration", "nmt"}

\* C2: in lss_configure_single_node_id, once inquire_node_id has returned an
\* id other than node_id, no configure_node_id, no store_configuration and no
\* NMT reset is issued, and the function returns status 3.
C2_SafetyGate ==
    (call = "lss_configure_single_node_id" /\ lss.inquired /\ lss.current_id # lss.node_id)
        => /\ \A i \in 1..Len(lssLog) : ~Mutating(lssLog[i])
           /\ Ended => (result = "returned" /\ lss.retCode = 3)
           /\ ~Ended => lpc = "gate"

C2_Witness ==
    /\ call = "lss_configure_single_node_id"
    /\ lss.inquired
    /\ lss.current_id # lss.node_id
    /\ lss.current_id = lss.new_node_id
    /\ result = "returned"

Handshake(t) == SelectSeq(t, LAMBDA ev : ev.k \in {"cw", "waited"})

\* C3: a single-target profile-position command (position_mode_normal,
\* send_position_command) writes the controlwords base, base|BIT4, base in
\* this order, waits for statusword bit 12 set between the second and the
\* third write, and waits for bit 12 cleared after the third write, before it
\* waits for target reached (bit 10).
C3_SingleTargetHandshake ==
    (call \in {"position_mode_normal", "send_position_command"} /\ result = "returned")
        => Handshake(trace) =
            << Ev("cw", "", 15, TRUE),
               Ev("cw", "", 31, TRUE),
               Ev("waited", "", 4096, TRUE),
               Ev("cw", "", 15, TRUE),
               Ev("waited", "", 4096, FALSE),
               Ev("waited", "", 1024, TRUE) >>

CallsOf(log, op) == SelectSeq(log, LAMBDA c : c.op = op)

C5_ScanAssignsSequentialIds ==
    (/\ call = "lss_scan_and_configure_nodes"
     /\ result = "returned"
     /\ \A i \in 1..Len(lssLog) : lssLog[i].ok)
        => LET found == Found(lssLog)
               n == Len(found)
           IN  /\ Len(lss.configured_devices) = n
               /\ \A i \in 1..n :
                    lss.configured_devices[i] =
                        [vendor_id |-> found[i].d[1], product_code |-> found[i].d[2],
                         revision |-> found[i].d[3], serial_number |-> found[i].d[4],
                         assigned_node_id |-> lss.first_node_id + i - 1]
               /\ Len(CallsOf(lssLog, "configure_node_id")) = n
               /\ Len(CallsOf(lssLog, "store_configuration")) = n
               /\ \A i \in 1..n :
                    CallsOf(lssLog, "configure_node_id")[i].a = lss.first_node_id + i - 1

C5_Witness ==
    /\ call = "lss_scan_and_configure_nodes"
    /\ result = "returned"
    /\ \A i \in 1..Len(lssLog) : lssLog[i].ok
    /\ lss.first_node_id = 32
    /\ Len(lss.configured_devices) = 2
    /\ lss.configured_devices[1].serial_number # lss.configured_devices[2].serial_number
    /\ lss.configured_devices[2].assigned_node_id = 33

InWait == frame.fn = "wait_for_statusword_flags"
Satisfies(sw) ==
    \/ frame.expected /\ BitAnd(sw, frame.val) = frame.val
    \/ ~frame.expected /\ BitAnd(sw, frame.val) = 0
Last(q) == q[Len(q)]

\* C6: wait_for_statusword_flags returns normally only if a statusword read
\* during the call satisfied the predicate - (sw & flags) == flags when the
\* expected flag state is True, (sw & flags) == 0 when it is False - and when
\* no read satisfied it the exception the function raises is TimeoutError
\* (a SIGINT delivered in time.sleep passes through as KeyboardInterrupt).
C6_ReturnOnlyOnMatch ==
    InWait =>
        /\ frame.pc = "returned" => \E i \in 1..Len(frame.seen) : Satisfies(frame.seen[i])
        /\ frame.pc = "raised" =>
            /\ \A i \in 1..Len(frame.seen) : ~Satisfies(frame.seen[i])
            /\ frame.exc \in {"TimeoutError", "KeyboardInterrupt"}

C6_Witness ==
    /\ InWait
    /\ frame.pc = "returned"
    /\ frame.val = BIT(10) + BIT(12)
    /\ frame.expected
    /\ frame.seen = << BIT(10), BIT(12), BIT(10) + BIT(12) >>

\* C7: if the k-th read is the first that satisfies the predicate,
\* wait_for_statusword_flags returns after exactly k reads and k - 1 sleeps;
\* it returns without any sleep exactly when the first read satisfies it.
C7_ReadsAndSleeps ==
    InWait =>
        /\ \A i \in 1..Len(frame.seen) :
                Satisfies(frame.seen[i]) => (i = Len(frame.seen) /\ frame.pc = "returned")
        /\ frame.pc = "returned" =>
            /\ Len(frame.seen) >= 1
            /\ Satisfies(Last(frame.seen))
            /\ frame.sleeps = Len(frame.seen) - 1
            /\ (frame.sleeps = 0) <=> Satisfies(frame.seen[1])
            /\ now = frame.t0 + frame.sleeps * frame.interval

C7_Witness ==
    /\ InWait
    /\ frame.pc = "returned"
    /\ frame.val = BIT(12)
    /\ frame.expected
    /\ frame.interval = 0
    /\ frame.seen = << 0, 0, BIT(12) >>
    /\ frame.sleeps = 2

\* C8: with timeout T > 0 and a statusword source that never satisfies the
\* predicate, wait_for_statusword_flags raises TimeoutError no earlier than T
\* and no later than T plus one poll interval after the call started.
C8_TimeoutWindow ==
    (InWait /\ frame.pc = "raised" /\ frame.exc = "TimeoutError" /\ frame.timeout > 0)
        => /\ now - frame.t0 >= frame.timeout
           /\ now - frame.t0 <= frame.timeout + frame.interval

C8_Witness ==
    /\ InWait
    /\ frame.pc = "raised"
    /\ frame.exc = "TimeoutError"
    /\ frame.timeout = 3
    /\ frame.interval = 2
    /\ now - frame.t0 = 4
    /\ Len(frame.seen) = 2

InSetState == frame.fn = "set_node_state"
WritesOf(t) == SubSeq(t, frame.base + 1, Len(t))

\* C9: set_node_state returns normally only if a read of the device's
\* reported state, performed after the state write, returned the requested
\* state.
C9_StateConfirmedByRead ==
    InSetState =>
        /\ Len(frame.seenState) > 0 =>
                (Len(trace) > frame.base /\ trace[frame.base + 1] = Ev("state", frame.state, 0, TRUE))
        /\ frame.pc = "returned" =>
                (Len(frame.seenState) > 0 /\ Last(frame.seenState) = frame.state)

C9_Witness ==
    /\ InSetState
    /\ frame.pc = "returned"
    /\ frame.state = OPERATION_ENABLED
    /\ Len(frame.seenState) = 2
    /\ frame.seenState[1] = SWITCH_ON

\* C10: set_node_state and set_node_operation_mode perform exactly one write
\* per call (the state token, the mode value) and wait_for_statusword_flags
\* performs none: the poll loops only read, and on the deadline TimeoutError
\* is raised without the write being re-issued or any other register being
\* written.  A mode write that the SDO server aborts is the call's only
\* write attempt.
C10_NoInternalRetry ==
    /\ InSetState =>
        WritesOf(trace) = IF frame.pc = "enter" THEN <<>>
                          ELSE << Ev("state", frame.state, 0, TRUE) >>
    /\ frame.fn = "set_node_operation_mode" =>
        /\ WritesOf(trace) \in {<<>>, << Ev("mode", "Mode of operation", frame.val, TRUE) >>}
        /\ (frame.pc \in {"loop", "sleep", "returned"} \/ frame.exc = "TimeoutError")
                => Len(WritesOf(trace)) = 1
    /\ InWait => WritesOf(trace) = <<>>

C10_Witness ==
    /\ InSetState
    /\ frame.pc = "raised"
    /\ frame.exc = "TimeoutError"
    /\ Len(frame.seenState) = 3
    /\ WritesOf(trace) = << Ev("state", frame.state, 0, TRUE) >>

Requested(state) == Ev("state", state, 0, TRUE)
Confirmed(state) == Ev("confirmed", state, 0, TRUE)
HomingPrelude(method, offset) ==
    << Requested(SWITCH_ON_DISABLED), Confirmed(SWITCH_ON_DISABLED),
       Requested(READY_TO_SWITCH_ON), Confirmed(READY_TO_SWITCH_ON),
       Requested(SWITCH_ON), Confirmed(SWITCH_ON),
       Ev("mode", "Mode of operation", HOMING, TRUE),
       Ev("confirmed", "Mode of operation", HOMING, TRUE) >>
    \o (IF offset # <<>> THEN << Ev("sdo", "Home offset", offset[1], TRUE) >> ELSE <<>>)
    \o << Ev("sdo", "Homing method", method, TRUE),
          Requested(OPERATION_ENABLED), Confirmed(OPERATION_ENABLED) >>

\* C11: in homing(), a controlword with bit 4 set is written only after, in
\* this order, SWITCH ON DISABLED, READY TO SWITCH ON and SWITCHED ON were
\* each requested and confirmed, HOMING mode was confirmed, the homing method
\* was written and OPERATION ENABLED was confirmed; a step that fails ends
\* the call with no bit-4 write.
C11_StartOnlyAfterPrelude ==
    call = "homing" =>
        \A i \in 1..Len(trace) :
            (IsCw(trace[i]) /\ Bit4(trace[i].v)) =>
                \E method \in {NEG_INDEX, POS_INDEX}, offset \in Offsets :
                    /\ i = Len(HomingPrelude(method, offset)) + 1
                    /\ SubSeq(trace, 1, i - 1) = HomingPrelude(method, offset)

C11_Witness ==
    /\ call = "homing"
    /\ Len(trace) >= 13
    /\ trace[9] = Ev("sdo", "Home offset", 2000, TRUE)
    /\ trace[10] = Ev("sdo", "Homing method", POS_INDEX, TRUE)
    /\ trace[13] = Ev("cw", "", 31, TRUE)

HomingAttained == \E i \in 1..Len(trace) : trace[i] = Ev("waited", "", BIT(12), TRUE)

\* C12: in every homing implementation, when the wait for homing attained
\* (statusword bit 12) fails the call ends by raising an error; it never
\* returns normally after a failed homing.
C12_FailedHomingRaises ==
    (call \in HomingCalls /\ Ended /\ CwWrites(trace) # <<>> /\ ~HomingAttained)
        => result # "returned"

\* C13: every error the sequencers raise - state-transition timeout,
\* mode-confirmation timeout, statusword-flag timeout, homing failure - names
\* the node and the condition that was awaited (target state, mode, or flag
\* mask with expected level).
C13_ErrorsNameNodeAndCondition ==
    /\ (frame.pc = "raised" /\ frame.exc = "TimeoutError") =>
        /\ frame.msg.node = <<NODE_ID>>
        /\ frame.msg.awaited =
            CASE frame.fn = "set_node_state" -> <<frame.state>>
              [] frame.fn = "set_node_operation_mode" -> <<frame.val>>
              [] frame.fn = "wait_for_statusword_flags" -> <<frame.val, frame.expected>>
    /\ (call \in HomingCalls /\ Running /\ frame.fn = "none" /\ prog[pc].i = "RAISE") =>
        /\ prog[pc].msg.node = <<NODE_ID>>
        /\ prog[pc].msg.awaited # <<>>

AckCleared == Ev("waited", "", BIT(12), FALSE)
StartsSetPoint(ev) == IsCw(ev) /\ Bit4(ev.v)

\* C14: in every profile-position sequencer, between two controlword writes
\* that set bit 4 (two set-points) statusword bit 12 has been observed
\* cleared: no rising edge of bit 4 is written while the acknowledge of the
\* previous set-point may still be asserted.
C14_AckClearedBetweenSetPoints ==
    \A j, i \in 1..Len(trace) :
        (j < i /\ StartsSetPoint(trace[j]) /\ StartsSetPoint(trace[i]))
            => \E k \in (j + 1)..(i - 1) : trace[k] = AckCleared

ChainedCalls == {"position_mode_set_of_set_points", "position_mode_trajectory"}
ChainedPoints ==
    IF call = "position_mode_set_of_set_points" THEN << 10000, 15000 >> ELSE position_data
Motion(t) == SelectSeq(t, LAMBDA ev : ev.k \in {"cw", "target", "waited"})

RECURSIVE Handshakes(_)
Handshakes(points) ==
    IF points = <<>> THEN <<>>
    ELSE << Ev("target", "", Head(points), TRUE),
            Ev("cw", "", 15 + BIT(9) + BIT(4), TRUE),
            Ev("waited", "", BIT(12), TRUE),
            Ev("cw", "", 15 + BIT(9), TRUE),
            Ev("waited", "", BIT(12), FALSE) >> \o Handshakes(Tail(points))

ChainedMotion(points) ==
    << Ev("cw", "", 15 + BIT(9), TRUE) >>
    \o Handshakes(points)
    \o << Ev("waited", "", BIT(10), TRUE) >>

IsPrefix(q, r) == Len(q) <= Len(r) /\ q = SubSeq(r, 1, Len(q))

\* C15: in chained motion (position_mode_set_of_set_points,
\* position_mode_trajectory) every controlword written has bit 9 set, each of
\* the n points gets one full handshake (target write, bit 4 set, wait
\* acknowledge set, bit 4 cleared, wait acknowledge cleared) in list order,
\* and the wait for target reached (bit 10) occurs once, after the last
\* point's handshake.
C15_ChainedMotion ==
    call \in ChainedCalls =>
        /\ \A i \in 1..Len(trace) : IsCw(trace[i]) => BitAnd(trace[i].v, BIT(9)) = BIT(9)
        /\ IsPrefix(Motion(trace), ChainedMotion(ChainedPoints))
        /\ result = "returned" => Motion(trace) = ChainedMotion(ChainedPoints)

C15_Witness ==
    /\ call = "position_mode_trajectory"
    /\ result = "returned"
    /\ Len(position_data) >= 3
    /\ Len(SelectSeq(trace, LAMBDA ev : ev.k = "target")) = Len(position_data)

PositionCommands ==
    {"send_position_command", "position_mode_normal", "position_mode_constant_velocity",
     "position_mode_set_of_set_points", "position_mode_trajectory"}

\* C20: when a wait step of a profile-position command fails (acknowledge or
\* target-reached timeout), controlword bit 4 has been cleared before the
\* error reaches the caller: no failed command leaves bit 4 asserted.
C20_FailedCommandClearsBit4 ==
    (call \in PositionCommands /\ result = "TimeoutError" /\ CwWrites(trace) # <<>>)
        => ~Bit4(Last(CwWrites(trace)).v)

\* ---- C16 ----
SingleReturned == call = "lss_configure_single_node_id" /\ result = "returned"

Failed(op) == \E k \in 1..Len(lssLog) : lssLog[k].op = op /\ ~lssLog[k].ok

Succeeded(op) == \E k \in 1..Len(lssLog) : lssLog[k].op = op /\ lssLog[k].ok

\* the identity read, the selective switch or the node-id inquiry failed
Unreachable ==
    \/ lss.identity = <<>>
    \/ Failed("send_switch_state_selective")
    \/ Failed("inquire_node_id")

SafetyCheckFailed == lss.inquired /\ lss.current_id # lss.node_id

StoreFailed == Failed("configure_node_id") \/ Failed("store_configuration")

\* C16: lss_configure_single_node_id returns 0 only when configure_node_id and
\* store_configuration both succeeded, 3 exactly when the inquired node id
\* differs from the expected one, 2 exactly when the identity read, the
\* selective switch or the inquiry failed, and 1 exactly when configure or
\* store failed; the three failure conditions exclude one another, so no two
\* of them share a code.
C16_DistinctStatusCodes ==
    SingleReturned =>
        /\ lss.retCode \in 0..3
        /\ lss.retCode = 0 =>
                Succeeded("configure_node_id") /\ Succeeded("store_configuration")
        /\ lss.retCode = 3 <=> SafetyCheckFailed
        /\ lss.retCode = 2 <=> Unreachable
        /\ lss.retCode = 1 <=> StoreFailed
        /\ ~(Unreachable /\ SafetyCheckFailed)
        /\ ~(Unreachable /\ StoreFailed)
        /\ ~(SafetyCheckFailed /\ StoreFailed)

\* the store fails after a successful configure and the call returns 1
C16_Witness ==
    /\ SingleReturned
    /\ lss.retCode = 1
    /\ Succeeded("configure_node_id")
    /\ Failed("store_configuration")

\* ---- C17 ----
Exited(script) == session.script = script /\ session.pc = "exited"

PairwiseDistinct(b) == \A d, e \in DOMAIN b : d # e => b[d].id # b[e].id

\* C17: when main() of change_node_id_all.py has run to completion (check,
\* unconfigure, scan and assign, reset, "completed successfully"), the devices
\* on the bus hold pairwise distinct node ids, whatever ids they started with.
C17_AllNodeIdsDistinct ==
    (Exited("change_node_id_all.py") /\ session.retval = "0") => PairwiseDistinct(bus)

\* ---- C18 ----
\* C18: in every example script, once the connection has been opened,
\* network.disconnect() is executed on every exit path of the session.
C18_DisconnectOnEveryExit ==
    (session.pc = "exited" /\ session.connected) => session.disconnects > 0

\* ---- C19 ----
\* C19: change_node_id_all.py exits with 0 when the configuration process
\* completed successfully, with 1 after an unexpected error and with 130 when
\* it was interrupted by the user.
C19_ExitCodes ==
    Exited("change_node_id_all.py") =>
        /\ session.raised = "KeyboardInterrupt" => session.exit = 130
        /\ session.raised = "Exception" => session.exit = 1
        /\ session.retval = "0" => session.exit = 0

\* ---- C21, C22 ----
InSetMode == frame.fn = "set_node_operation_mode"

ModeWrite == Ev("mode", "Mode of operation", frame.val, TRUE)

\* C21: set_node_operation_mode writes the requested mode to Mode of operation
\* (0x6060) once and writes nothing else; it then polls that same register,
\* one read every poll interval (one tick, 100 ms), until a read echoes the
\* requested value, and raises TimeoutError when the deadline passes first.
C21_WriteThenPollModeSelect ==
    InSetMode =>
        /\ WritesOf(trace) \in {<<>>, << ModeWrite >>}
        /\ (frame.pc \in {"loop", "sleep", "returned"} \/ frame.seen # <<>>
                \/ frame.exc = "TimeoutError") => WritesOf(trace) = << ModeWrite >>
        /\ frame.seen # <<>> => frame.reg = "Mode of operation"
        /\ frame.interval = 1
        /\ now = frame.sleeps * frame.interval
        /\ Len(frame.seen) \in {frame.sleeps, frame.sleeps + 1}
        /\ \A i \in 1..Len(frame.seen) :
                frame.seen[i] = frame.val <=> (i = Len(frame.seen) /\ frame.pc = "returned")
        /\ frame.pc = "returned" => frame.seen # <<>>
        /\ (frame.pc = "raised" /\ frame.exc = "TimeoutError") => now >= frame.timeout

C21_Witness ==
    /\ InSetMode
    /\ frame.pc = "returned"
    /\ frame.val = PROFILE_POSITION
    /\ frame.seen = << HOMING, OFF, PROFILE_POSITION >>
    /\ frame.sleeps = 2
    /\ WritesOf(trace) = << ModeWrite >>

\* C22: set_node_operation_mode returns normally only after a read of Mode of
\* operation display (0x6061) equalled the requested mode.
C22_ConfirmedByModeDisplay ==
    (InSetMode /\ frame.pc = "returned") => frame.reg = "Mode of operation display"

\* ---- C23 ----
\* the writes of the controlword in a sequence of homing() calls, with the
\* marks that separate the calls; a state token is written as the command
\* code of its transition, which has bit 4 clear
CwHistory == SelectSeq(trace, LAMBDA ev : ev.k \in {"cw", "state", "called"})

SetsBit4(ev) == ev.k = "cw" /\ Bit4(ev.v)

ClearsBit4(ev) == ev.k = "state" \/ (ev.k = "cw" /\ ~Bit4(ev.v))

\* C23: across a sequence of homing() calls on a node, every write of the
\* controlword with bit 4 set directly follows, within the same call, a write
\* with bit 4 clear - it is a 0->1 transition and a 1->0 transition lies
\* between it and the rising edge of the call before - and no call writes
\* bit 4 set twice.
C23_FreshEdgePerCall ==
    call = "homing_sequence" =>
        LET h == CwHistory
        IN /\ \A i \in 1..Len(h) : SetsBit4(h[i]) => (i > 1 /\ ClearsBit4(h[i - 1]))
           /\ \A i, j \in 1..Len(h) :
                (i < j /\ SetsBit4(h[i]) /\ SetsBit4(h[j]))
                    => \E k \in (i + 1)..(j - 1) : h[k].k = "called"

\* the first call was interrupted in the settle delay with bit 4 still set,
\* and the second call has written its own start
C23_Witness ==
    /\ call = "homing_sequence"
    /\ LET h == CwHistory
       IN \E i \in 2..Len(h) :
            /\ h[i].k = "called"
            /\ SetsBit4(h[i - 1])
            /\ SetsBit4(h[Len(h)])

\* ---- C24 ----
Suffix(q, n) == SubSeq(q, Len(q) - n + 1, Len(q))

\* C24: homing() returns normally only after statusword bit 12 was observed
\* set, then the controlword was rewritten with bit 4 clear, then SWITCHED ON
\* was requested and confirmed by a read of the reported state: these are the
\* last four events of the call, in this order.
C24_ReturnAfterAttainedClearedSwitchedOn ==
    (call = "homing" /\ result = "returned") =>
        /\ Len(trace) >= 4
        /\ Suffix(trace, 4) = << Ev("waited", "", BIT(12), TRUE),
                                 Ev("cw", "", 15, TRUE),
                                 Requested(SWITCH_ON),
                                 Confirmed(SWITCH_ON) >>

C24_Witness ==
    /\ call = "homing"
    /\ result = "returned"
    /\ Suffix(trace, 1) = << Confirmed(SWITCH_ON) >>
    /\ \E i \in 1..Len(trace) : trace[i] = Ev("sdo", "Home offset", 2000, TRUE)

\* ---- C25 ----
StateRequests(t) == SelectSeq(t, LAMBDA ev : ev.k = "state")

\* C25: when homing() has ended, by return or by exception, on a path on which
\* OPERATION ENABLED had been reached, the last power state it requested from
\* the drive is SWITCHED ON.
C25_NeverLeftEnabled ==
    (call \in HomingCalls /\ Ended
        /\ \E i \in 1..Len(trace) : trace[i] = Confirmed(OPERATION_ENABLED))
        => Last(StateRequests(trace)) = Requested(SWITCH_ON)

\* ---- C27 ----
ModeConfirmed(ev) == ev = Ev("confirmed", "Mode of operation", HOMING, TRUE)

\* C27: homing() writes Homing method with POS_INDEX when direction_positive
\* is true and NEG_INDEX otherwise, and writes Home offset only when an offset
\* is supplied, with that offset; the method is written before bit 4 is set
\* and both registers are written only after HOMING mode is confirmed.
C27_MethodAlwaysOffsetOptional ==
    \A d \in BOOLEAN, o \in Offsets :
        (\/ call = "homing" /\ prog = homing(d, o)
         \/ call = "homing_src_utils" /\ prog = homing_src_utils(d, o))
        => LET method == IF d THEN POS_INDEX ELSE NEG_INDEX
               IsMethod(ev) == ev.k = "sdo" /\ ev.s = "Homing method"
               IsOffset(ev) == ev.k = "sdo" /\ ev.s = "Home offset"
               IsStart(ev) == IsCw(ev) /\ Bit4(ev.v)
           IN /\ \A i \in 1..Len(trace) :
                    /\ IsMethod(trace[i]) => trace[i].v = method
                    /\ IsOffset(trace[i]) => o = << trace[i].v >>
                    /\ (IsMethod(trace[i]) \/ IsOffset(trace[i]))
                        => \E j \in 1..(i - 1) : ModeConfirmed(trace[j])
                    /\ IsStart(trace[i])
                        => /\ \E j \in 1..(i - 1) : IsMethod(trace[j])
                           /\ o # <<>> => \E j \in 1..(i - 1) : IsOffset(trace[j])
                           /\ \A j \in (i + 1)..Len(trace) :
                                ~IsMethod(trace[j]) /\ ~IsOffset(trace[j])

\* ---- C26 ----
\* C26: in homing(), the wait for statusword bit 12 never succeeds on a
\* statusword that the device sent before it processed this call's
\* start-homing controlword write.
C26_AttainedAfterStart ==
    (call \in HomingCalls /\ InWait /\ frame.pc = "returned") => ~frame.stale

\* ---- C28 ----
ExampleSequencers ==
    {"homing", "homing_sequence", "position_loop", "position_mode_normal",
     "position_mode_constant_velocity", "position_mode_set_of_set_points",
     "position_mode_trajectory"}

StateConfirmed(ev) == ev.k = "confirmed" /\ ev.s \in NodeState

ModeIsConfirmed(ev) == ev.k = "confirmed" /\ ev.s = "Mode of operation"

\* C28: in the sequencers of src/examples, over any sequence of calls, Mode of
\* operation is written only while the most recently confirmed power state is
\* SWITCHED ON, and OPERATION ENABLED is requested only after the mode has
\* been confirmed in the same call.
C28_ModeSelectedThenEnabled ==
    call \in ExampleSequencers =>
        \A i \in 1..Len(trace) :
            /\ trace[i].k = "mode" =>
                \E j \in 1..(i - 1) :
                    /\ trace[j] = Confirmed(SWITCH_ON)
                    /\ \A m \in (j + 1)..(i - 1) : ~StateConfirmed(trace[m])
            /\ trace[i] = Requested(OPERATION_ENABLED) =>
                \E j \in 1..(i - 1) :
                    /\ ModeIsConfirmed(trace[j])
                    /\ \A m \in (j + 1)..(i - 1) : trace[m].k # "called"

\* a second homing() call on the node has requested OPERATION ENABLED
C28_Witness ==
    /\ call = "homing_sequence"
    /\ \E i \in 1..Len(trace) : trace[i].k = "called"
    /\ Last(trace) = Requested(OPERATION_ENABLED)

----------------------------------------------------------------------------
(* position_loop: the failure threshold *)

PassStarted(i) == \E k \in 1..Len(trace) : trace[k] = Ev("for", "i", i, TRUE)
PassFailed(i) == \E k \in 1..Len(trace) : trace[k] = Ev("log", "warning", i, TRUE)
LoopStopped == \E k \in 1..Len(trace) : trace[k] = Ev("log", "error", 0, TRUE)
LastPass == CHOOSE i \in 0..MaxPasses :
                /\ i > 0 => PassStarted(i)
                /\ \A j \in (i + 1)..MaxPasses : ~PassStarted(j)

\* C29: position_loop gives up its remaining passes only when the last two
\* passes both failed; a failure that was followed by a successful pass is
\* not counted, and one failure alone never stops the loop.
C29_StopsOnlyAfterConsecutiveFailures ==
    call = "position_loop_example_profile_position" /\ LoopStopped =>
        /\ LastPass > 1
        /\ PassFailed(LastPass)
        /\ PassFailed(LastPass - 1)

----------------------------------------------------------------------------
(* lss_configure_single_node_id: the order of the service calls *)

OpsOf(log) == [k \in 1..Len(log) |-> log[k].op]

\* the services called up to the NMT reset when the device answered with the
\* expected node id; the switch of all nodes to waiting before the selective
\* switch is part of the code's sequence
MatchPathOps ==
    << "send_switch_state_global", "send_switch_state_selective", "inquire_node_id",
       "configure_node_id", "store_configuration", "send_switch_state_global", "nmt" >>

\* C30: when the inquired node id matches, lss_configure_single_node_id reads
\* the identity by SDO, then switches selectively with that identity, inquires
\* the node id, configures the new id, stores it, switches all nodes to
\* waiting and resets by NMT, in this order; the NMT reset is issued on no
\* other path, in particular not when 1, 2 or 3 is returned; and no LSS
\* service is called when the identity read failed.
C30_MatchPathOrder ==
    call = "lss_configure_single_node_id" =>
        /\ lss.identity = <<>> => lssLog = <<>>
        /\ \A k \in 1..Len(lssLog) :
            lssLog[k].op = "nmt" =>
                /\ k = Len(lssLog)
                /\ OpsOf(lssLog) = MatchPathOps
                /\ \A j \in 2..5 : lssLog[j].ok
                /\ lssLog[1].s = "WAITING" /\ lssLog[6].s = "WAITING"
                /\ lssLog[2].d = lss.identity
                /\ lssLog[3].a = lss.node_id
                /\ lssLog[4].a = lss.new_node_id
        /\ SingleReturned /\ lss.retCode = 0 => OpsOf(lssLog) = MatchPathOps
        /\ SingleReturned /\ lss.retCode \in 1..3 => ~Succeeded("nmt") /\ ~Failed("nmt")

\* the node id was changed and 0 returned
C30_Witness ==
    /\ SingleReturned
    /\ lss.retCode = 0
    /\ lss.node_id # lss.new_node_id
    /\ OpsOf(lssLog) = MatchPathOps

----------------------------------------------------------------------------
(* lss_configure_single_node_id: the LSS state left behind *)

\* the device selected by the k-th call has been switched back to waiting by
\* a later global switch that succeeded
SwitchedBackAfter(k) ==
    \E j \in (k + 1)..Len(lssLog) :
        /\ lssLog[j].op = "send_switch_state_global"
        /\ lssLog[j].s = "WAITING"
        /\ lssLog[j].ok

\* C31: when lss_configure_single_node_id returns after the selective switch
\* succeeded, with whatever status, a global switch to waiting has been
\* issued after it and has taken effect.
C31_NoDeviceLeftInConfiguration ==
    SingleReturned =>
        \A k \in 1..Len(lssLog) :
            (lssLog[k].op = "send_switch_state_selective" /\ lssLog[k].ok)
                => SwitchedBackAfter(k)

----------------------------------------------------------------------------
(* lss_unconfigure_all_nodes: a failed store *)

\* configure_node_id(0xFF) succeeded and store_configuration raised an
\* Exception, which the inner except clause catches
StoreRaised ==
    /\ Succeeded("configure_node_id")
    /\ \E k \in 1..Len(lssLog) :
        lssLog[k].op = "store_configuration" /\ lssLog[k].s \in {"LssError", "CanError"}

----------------------------------------------------------------------------
(* lss_scan_and_configure_nodes: the records returned *)

ScanReturned == call = "lss_scan_and_configure_nodes" /\ result = "returned"

\* the node ids given to the configure_node_id calls that succeeded, in order
ConfiguredIds ==
    LET done == SelectSeq(lssLog, LAMBDA c : c.op = "configure_node_id" /\ c.ok)
    IN  [k \in 1..Len(done) |-> done[k].a]

\* C33: the records lss_scan_and_configure_nodes returns are exactly the
\* devices on which configure_node_id succeeded, in order: none of them is
\* missing from the result and no other device is in it.
C33_RecordsAreConfiguredDevices ==
    ScanReturned =>
        [k \in 1..Len(lss.configured_devices) |-> lss.configured_devices[k].assigned_node_id]
            = ConfiguredIds

----------------------------------------------------------------------------
(* lss_scan_and_configure_nodes: the range of the node ids *)

ValidNodeIds == 1..127

\* C34: lss_scan_and_configure_nodes, started with a first_node_id in 1..127,
\* passes only node ids in 1..127 to configure_node_id and returns only
\* records whose assigned_node_id is in 1..127.
C34_NodeIdsInRange ==
    (call = "lss_scan_and_configure_nodes" /\ lss.first_node_id \in ValidNodeIds) =>
        /\ \A k \in 1..Len(lssLog) :
            lssLog[k].op = "configure_node_id" => lssLog[k].a \in ValidNodeIds
        /\ \A k \in 1..Len(lss.configured_devices) :
            lss.configured_devices[k].assigned_node_id \in ValidNodeIds

----------------------------------------------------------------------------
(* lss_scan_and_configure_nodes: the number of fast-scan rounds *)

InScanLoop(s) == s.script = "change_node_id_all.py" /\ s.pc = "scan_and_configure_nodes"

\* the devices the fast_scan of the next round can find
Findable(b) == Unconfigured(SwitchStateGlobal(b, "waiting"))

\* C35: the loop of lss_scan_and_configure_nodes ends at the first not-found
\* result or error, and every round that is followed by another one has
\* assigned and stored an id on a device that no later fast_scan finds; with n
\* unconfigured devices on the bus there are so at most n + 1 rounds.
C35_EachFurtherRoundTakesADevice ==
    [][(InScanLoop(session) /\ InScanLoop(session'))
            => /\ Findable(bus') \subseteq Findable(bus)
               /\ Cardinality(Findable(bus')) = Cardinality(Findable(bus)) - 1
               /\ Len(session'.devices) = Len(session.devices) + 1]_vars

\* every device was found in a round of its own and the last round found none
C35_Witness ==
    /\ session.script = "change_node_id_all.py"
    /\ session.pc = "reset"
    /\ Len(session.devices) = Len(bus)
    /\ Len(bus) > 1
    /\ Findable(bus) = {}

----------------------------------------------------------------------------
(* configuration.py: restore, configure, save, reset *)


Written(name, value) == \E k \in 1..Len(trace) : trace[k] = Ev("sdo", name, value, TRUE)

SaveWritten == Written("Store Parameter Field[1]", SAVE_ALL_PARAMETERS)

\* the run was ended by the device or the bus rejecting a step, or by the user
Rejected == result \in {"SdoAbortedError", "NmtError", "KeyboardInterrupt"}

\* the SDO writes of the configuration functions, in the order main() calls them
ConfigurationWrites ==
    LET writes == SelectSeq(reset_and_setup_logging \o configure_io \o configure_input_overrides
                            \o configure_motion_parameters \o configure_homing_parameters,
                            LAMBDA ins : ins.i = "SDO")
    IN  [k \in 1..Len(writes) |-> Ev("sdo", writes[k].s, writes[k].v, TRUE)]

\* C36: when the device accepts the boot-up and every SDO write, main() of
\* configuration.py restores the defaults, writes the whole configuration,
\* then writes the save magic to Store Parameter Field and then resets the
\* node; and the save magic is only ever written after all those writes.
C36_RestoreConfigureSaveReset ==
    call = "configuration_main" =>
        /\ (Ended /\ ~Rejected) =>
            /\ result = "returned"
            /\ SelectSeq(trace, LAMBDA ev : ev.k = "sdo") =
                    ConfigurationWrites \o << Ev("sdo", "Store Parameter Field[1]", SAVE_ALL_PARAMETERS, TRUE) >>
            /\ Last(trace) = Ev("nmt", "RESET", 0, TRUE)
        /\ SaveWritten =>
            \A k \in 1..Len(ConfigurationWrites) :
                Written(ConfigurationWrites[k].s, ConfigurationWrites[k].v)

----------------------------------------------------------------------------
(* mode_pp_set_of_set_points.py: the TPDO callback and the CSV file *)

\* C37: on_position_update, called on the receive thread, never executes
\* writer.writerow after main() has executed csvfile.close(), however the
\* reception of a TPDO interleaves with main's callbacks.clear() and close().
C37_NoWriteAfterClose ==
    session.script = "mode_pp_set_of_set_points.py" => ~session.late

----------------------------------------------------------------------------
(* error_handler *)

\* the types in the order the categories are to be tried
CategoryOrder ==
    << <<"SdoAbortedError", "SDO abort">>, <<"LssError", "LSS">>, <<"NmtError", "NMT">>,
       <<"CanError", "CAN">>, <<"TimeoutError", "timeout">>,
       <<"FileNotFoundError", "file not found">>, <<"ConnectionError", "connection">> >>

FirstMatch(exc) ==
    LET hits == {k \in 1..Len(CategoryOrder) : CategoryOrder[k][1] \in Bases[exc]}
    IN  IF hits = {} THEN "other"
        ELSE CategoryOrder[CHOOSE k \in hits : \A j \in hits : k <= j][2]

Logged == SelectSeq(trace, LAMBDA ev : ev.k = "log")

\* C38: error_handler(exc, rethrow) logs exactly one category, that of the
\* first type in the order SDO abort, LSS, NMT, CAN, timeout, file-not-found,
\* connection that exc is an instance of, or "other"; it raises if and only if
\* rethrow is True, and what it raises is exc.
C38_OneCategoryRaiseIffRethrow ==
    (call = "error_handler" /\ Ended) =>
        LET exc == trace[1].s
            rethrow == trace[1].e
        IN  /\ Logged = << Ev("log", FirstMatch(exc), 0, TRUE) >>
            /\ result # "returned" <=> rethrow
            /\ rethrow => result = exc

\* a python-can timeout, which is both a CanError and a TimeoutError, was
\* logged and raised again
C38_Witness ==
    /\ call = "error_handler"
    /\ trace[1] = Ev("exc", "CanTimeoutError", 0, TRUE)
    /\ Logged = << Ev("log", "CAN", 0, TRUE) >>
    /\ result = "CanTimeoutError"

====
